---- MODULE Spec2Model ----
(***************************************************************************)
(* CurateX-AI: the hybrid retrieval-augmented question-answering engine of *)
(* rag.py (HybridRetriever._retrieve, setup_news_rag,                      *)
(* search_documents_with_context, answer_news_question) and the way        *)
(* main.py calls it from executor threads.                                 *)
(***************************************************************************)
EXTENDS Integers, Sequences, FiniteSets, TLC

VARIABLES
    vector_index,          \* rag.py:39   module global
    keyword_index,         \* rag.py:40   module global
    hybrid_query_engine,   \* rag.py:41   module global
    nodes,                 \* rag.py:42   module global
    conversation_history,  \* rag.py:43   module global
    storage,               \* the persist_dir "storage" on disk (rag.py:96)
    pc,                    \* per executor thread: its position in the call it runs
    frame,                 \* per executor thread: the locals of that call
    ncalls,                \* number of answer calls started so far
    nsetups,               \* number of setup_news_rag calls started so far
    turns,                 \* history variable: every exchange that got a response
    last_dir,              \* history variable: the directory state of the last setup
    askers,                \* history variable: the user behind each stored turn
    rpc,                   \* HybridRetriever._retrieve: position
    ridx,                  \* HybridRetriever._retrieve: loop index
    all_results,           \* HybridRetriever._retrieve: local list (rag.py:53)
    unique_nodes,          \* HybridRetriever._retrieve: local dict (rag.py:63)
    strategy_out,          \* history variable: what each retriever did
    fused,                 \* HybridRetriever._retrieve: the returned list
    replay,                \* history variable: what each retriever did in the
                           \* call before this one, <<>> in a first call
    first_fused            \* history variable: what the call before returned

(***************************************************************************)
(* The message scheduler of curatex_bot.py: its module globals             *)
(* (curatex_bot.py:28-32), the scheduler tasks and the handler that runs.  *)
(***************************************************************************)
VARIABLES
    scheduled_messages,    \* curatex_bot.py:28  module global
    scheduled_time,        \* curatex_bot.py:30  module global
    target_chat_id,        \* curatex_bot.py:31  module global
    is_scheduling_active,  \* curatex_bot.py:32  module global
    clock,                 \* the minute of the day it is now
    tasks,                 \* the message_scheduler tasks, in order of creation
    handler,               \* position of the update handler that is running
    nschedules,            \* number of schedules set up so far
    deliveries,            \* history variable: how often each message was sent
    stopped,               \* history variable: /stop has cancelled the schedule
                           \* and no schedule was set up since
    late_attempts          \* history variable: sends started while stopped

botVars == <<scheduled_messages, scheduled_time, target_chat_id,
             is_scheduling_active, clock, tasks, handler, nschedules,
             deliveries, stopped, late_attempts>>

\* main.py: the input conversation of the Telegram bot.
VARIABLES
    conversations,         \* ConversationHandler: state of each (chat, user)
    user_sessions,         \* main.py:34, dict user id -> dict of collected fields
    last_update            \* history variable: the update handled last, with
                           \* the conversation state and the sessions before it

convVars == <<conversations, user_sessions, last_update>>

\* main.py: the curation pipeline and the routing of questions.
VARIABLES
    step,                  \* position of process_news_curation
    session_data,          \* the session the pipeline was called with
    sender,                \* update.effective_user.id of the running pipeline
    curated_files,         \* the list run_curation returned
    users_with_news_context, \* main.py:37
    setups0,               \* setup_news_rag calls made before this run's own
    ran,                   \* history variable: the steps of this run, in order,
                           \* each with whether it succeeded
    outcome,               \* history variable: what the run told the user last
    nruns                  \* pipeline runs so far

pipeVars == <<step, session_data, sender, curated_files,
              users_with_news_context, setups0, ran, outcome, nruns>>

engineVars == <<vector_index, keyword_index, hybrid_query_engine, nodes,
                conversation_history, storage, pc, frame, ncalls, nsetups, turns,
                last_dir, askers>>
fuseVars == <<rpc, ridx, all_results, unique_nodes, strategy_out, fused,
              replay, first_fused>>
vars == <<vector_index, keyword_index, hybrid_query_engine, nodes,
          conversation_history, storage, pc, frame, ncalls, nsetups, turns,
          last_dir, askers,
          rpc, ridx, all_results, unique_nodes, strategy_out, fused,
          replay, first_fused,
          scheduled_messages, scheduled_time, target_chat_id,
          is_scheduling_active, clock, tasks, handler, nschedules,
          deliveries, stopped, late_attempts,
          conversations, user_sessions, last_update,
          step, session_data, sender, curated_files,
          users_with_news_context, setups0, ran, outcome, nruns>>

(***************************************************************************)
(* Bounds of the model.                                                    *)
(***************************************************************************)
NumThreads == 2
MaxCalls == 12
MaxSetups == 3
MaxResults == 1
MaxConcCalls == 2
MaxConcSetups == 1
NumUsers == 2
MaxSchedules == 2
MsgsPerSchedule == 2
MaxMinute == 2
NumChats == 2
MaxRuns == 1
MaxQuestions == 1

(***************************************************************************)
(* Program constants.                                                      *)
(***************************************************************************)
HistoryCap == 10
RecentTurns == 4
NumRetrievers == 3

Threads == 1..NumThreads

\* main.py:1001: the telegram users on whose behalf answer calls are made.
Users == 1..NumUsers

(***************************************************************************)
(* Index handles.  kind "none" is Python's None; gen names the node set    *)
(* the index is over: the number of the setup call that chunked it, 0 for  *)
(* a node set chunked by an earlier process.                               *)
(***************************************************************************)
NoneH == [kind |-> "none", gen |-> 0]
Handle(k, g) == [kind |-> k, gen |-> g]
NoEngine == [kind |-> "none", vec |-> NoneH, kw |-> NoneH, bm25 |-> NoneH]
Engine(v, k, b) == [kind |-> "engine", vec |-> v, kw |-> k, bm25 |-> b]

(***************************************************************************)
(* Texts.  A text is a tagged value: the fixed not-initialized message,    *)
(* an f-string around an exception, a question, or str(response).          *)
(***************************************************************************)
Text(tag, id) == [tag |-> tag, id |-> id]
NoText == Text("none", 0)
NotInitText == Text("RAG system not initialized. Please run setup_news_rag first.", 0)
ErrorSearching(e) == Text("Error searching documents: ", e)
ErrorAnswering(e) == Text("Error answering question: ", e)
Question(q) == Text("question", q)
StrResponse(r) == Text("response", r)

(***************************************************************************)
(* What a call gave back to its caller: a returned str, a returned bool,   *)
(* or an exception that left the call.                                     *)
(***************************************************************************)
NoRet == [kind |-> "none", text |-> NoText, ok |-> FALSE]
RetStr(t) == [kind |-> "str", text |-> t, ok |-> FALSE]
RetBool(b) == [kind |-> "bool", text |-> NoText, ok |-> b]
Raised(e) == [kind |-> "raise", text |-> Text("exception", e), ok |-> FALSE]

Turn(u, a) == [user |-> u, assistant |-> a]
NoPrompt == [wrapped |-> FALSE, lines |-> <<>>, q |-> NoText]

IdleFrame ==
    [op |-> "none", q |-> NoText, context_prompt |-> NoPrompt,
     response |-> 0, ret |-> NoRet, path |-> "none",
     loaded |-> {}, built |-> {}, persisted |-> {}, gen |-> 0,
     vector_retriever |-> NoneH, keyword_retriever |-> NoneH,
     bm25_retriever |-> NoneH, retrieved |-> FALSE, completions |-> 0,
     notinit |-> FALSE, failed |-> "no", hist0 |-> <<>>, inner |-> NoRet,
     dir |-> "none", handles0 |-> <<>>, after_dir |-> "none",
     storage0 |-> <<>>, again |-> FALSE, user |-> 0, askers0 |-> <<>>]


(***************************************************************************)
(* Thread bookkeeping: a worker of the default executor runs one call at   *)
(* a time (main.py:984 for setup, main.py:1022 for an answer).             *)
(***************************************************************************)
Goto(t, label, f) ==
    /\ pc' = [pc EXCEPT ![t] = label]
    /\ frame' = [frame EXCEPT ![t] = f]
    /\ UNCHANGED <<fuseVars, botVars, convVars, pipeVars>>

Handles == <<vector_index, keyword_index, nodes, hybrid_query_engine>>

\* setup_news_rag's failure exits: "return False" at rag.py:85, 91, 121, 165.
SetupFailed(f) == [f EXCEPT !.ret = RetBool(FALSE), !.failed = "setup"]

NodeSet(g) == Handle("nodes", g)

\* A setup call that got through without any step raising: it took the
\* load path and returned True.
LoadedCleanly(f) ==
    f.op = "setup" /\ f.path = "load" /\ f.failed = "no" /\ f.ret = RetBool(TRUE)

(***************************************************************************)
(* setup_news_rag, rag.py:77-165                                           *)
(***************************************************************************)
DirStates == {"missing", "no_txt", "listdir_raises", "ok"}

\* rag.py:81-93: the directory checks.  dir is what the file system holds
\* at data_dir when the call is made.
SetupStart(t, dir) ==
    /\ pc[t] = "idle"
    /\ nsetups < MaxSetups
    /\ nsetups' = nsetups + 1
    /\ last_dir' = dir
    /\ LET f == [IdleFrame EXCEPT !.op = "setup", !.gen = nsetups + 1,
                                  !.dir = dir, !.handles0 = Handles,
                                  !.storage0 = storage,
                                  !.hist0 = conversation_history,
                                  !.again = LoadedCleanly(frame[t])]
       IN  IF dir = "ok"
           THEN Goto(t, "load_vector", f)
           ELSE Goto(t, "idle", SetupFailed(f))
    /\ UNCHANGED <<vector_index, keyword_index, hybrid_query_engine, nodes,
                   conversation_history, storage, ncalls, turns, askers>>

\* rag.py:99-100: StorageContext.from_defaults and load_index_from_storage
\* of "vector"; any exception enters the handler at rag.py:112.
LoadVector(t, ok) ==
    /\ pc[t] = "load_vector"
    /\ ok => storage.vector.kind = "stored"
    /\ IF ok
       THEN /\ vector_index' = Handle("loaded", storage.vector.gen)
            /\ Goto(t, "load_keyword",
                    [frame[t] EXCEPT !.loaded = @ \cup {"vector"}])
       ELSE /\ UNCHANGED vector_index
            /\ Goto(t, "read_documents", [frame[t] EXCEPT !.path = "build"])
    /\ UNCHANGED <<keyword_index, hybrid_query_engine, nodes,
                   conversation_history, storage, ncalls, nsetups, turns, last_dir, askers>>

\* Mutant: when the keyword index does not load, only the keyword index is
\* built again; the loaded vector index is kept.
LoadKeywordRebuildsKeywordOnly(t, ok) ==
    /\ pc[t] = "load_keyword"
    /\ ok => storage.keyword.kind = "stored"
    /\ IF ok
       THEN /\ keyword_index' = Handle("loaded", storage.keyword.gen)
            /\ Goto(t, "load_chunk",
                    [frame[t] EXCEPT !.loaded = @ \cup {"keyword"}])
       ELSE /\ UNCHANGED keyword_index
            /\ Goto(t, "build_keyword", [frame[t] EXCEPT !.path = "build"])
    /\ UNCHANGED <<vector_index, hybrid_query_engine, nodes,
                   conversation_history, storage, ncalls, nsetups, turns, last_dir, askers>>

\* rag.py:101: load_index_from_storage of "keyword".
LoadKeyword(t, ok) ==
    /\ pc[t] = "load_keyword"
    /\ ok => storage.keyword.kind = "stored"
    /\ IF ok
       THEN /\ keyword_index' = Handle("loaded", storage.keyword.gen)
            /\ Goto(t, "load_chunk",
                    [frame[t] EXCEPT !.loaded = @ \cup {"keyword"}])
       ELSE /\ UNCHANGED keyword_index
            /\ Goto(t, "read_documents", [frame[t] EXCEPT !.path = "build"])
    /\ UNCHANGED <<vector_index, hybrid_query_engine, nodes,
                   conversation_history, storage, ncalls, nsetups, turns, last_dir, askers>>

\* Mutant: the handler's rebuild runs after a load that succeeded.
AfterLoadRebuild == "read_documents"

\* rag.py:110-145: the try body ends without an exception, so the handler
\* at rag.py:112-143 is skipped and control is at rag.py:145.
AfterLoad == "create_retrievers"

\* rag.py:104-110: the load path re-reads and chunks the documents, still
\* inside the try of rag.py:97, so a failure here enters rag.py:112 too.
LoadPathChunk(t, ok) ==
    /\ pc[t] = "load_chunk"
    /\ IF ok
       THEN /\ nodes' = NodeSet(frame[t].gen)
            /\ Goto(t, AfterLoad, [frame[t] EXCEPT !.path = "load"])
       ELSE /\ UNCHANGED nodes
            /\ Goto(t, "read_documents", [frame[t] EXCEPT !.path = "build"])
    /\ UNCHANGED <<vector_index, keyword_index, hybrid_query_engine,
                   conversation_history, storage, ncalls, nsetups, turns, last_dir, askers>>

\* rag.py:115-121: the handler reads the documents; its own handler
\* returns False.
ReadDocuments(t, ok) ==
    /\ pc[t] = "read_documents"
    /\ IF ok
       THEN Goto(t, "chunk", frame[t])
       ELSE Goto(t, "idle", SetupFailed(frame[t]))
    /\ UNCHANGED <<vector_index, keyword_index, hybrid_query_engine, nodes,
                   conversation_history, storage, ncalls, nsetups, turns, last_dir, askers>>

\* rag.py:123-129: chunking; an exception reaches rag.py:163.
Chunk(t, ok) ==
    /\ pc[t] = "chunk"
    /\ IF ok
       THEN /\ nodes' = NodeSet(frame[t].gen)
            /\ Goto(t, "build_vector", frame[t])
       ELSE /\ UNCHANGED nodes
            /\ Goto(t, "idle", SetupFailed(frame[t]))
    /\ UNCHANGED <<vector_index, keyword_index, hybrid_query_engine,
                   conversation_history, storage, ncalls, nsetups, turns, last_dir, askers>>

\* rag.py:133: VectorStoreIndex(nodes, ...) over the global nodes.
BuildVector(t, ok) ==
    /\ pc[t] = "build_vector"
    /\ IF ok
       THEN /\ vector_index' = Handle("built", nodes.gen)
            /\ Goto(t, "build_keyword",
                    [frame[t] EXCEPT !.built = @ \cup {"vector"}])
       ELSE /\ UNCHANGED vector_index
            /\ Goto(t, "idle", SetupFailed(frame[t]))
    /\ UNCHANGED <<keyword_index, hybrid_query_engine, nodes,
                   conversation_history, storage, ncalls, nsetups, turns, last_dir, askers>>

\* rag.py:136: SimpleKeywordTableIndex(nodes).
BuildKeyword(t, ok) ==
    /\ pc[t] = "build_keyword"
    /\ IF ok
       THEN /\ keyword_index' = Handle("built", nodes.gen)
            /\ Goto(t, "persist_vector",
                    [frame[t] EXCEPT !.built = @ \cup {"keyword"}])
       ELSE /\ UNCHANGED keyword_index
            /\ Goto(t, "idle", SetupFailed(frame[t]))
    /\ UNCHANGED <<vector_index, hybrid_query_engine, nodes,
                   conversation_history, storage, ncalls, nsetups, turns, last_dir, askers>>

\* rag.py:140-142: vector_index.storage_context.persist.
PersistVector(t, ok) ==
    /\ pc[t] = "persist_vector"
    /\ IF ok
       THEN /\ storage' = [storage EXCEPT
                              !.vector = Handle("stored", vector_index.gen)]
            /\ Goto(t, "persist_keyword",
                    [frame[t] EXCEPT !.persisted = @ \cup {"vector"}])
       ELSE /\ UNCHANGED storage
            /\ Goto(t, "idle", SetupFailed(frame[t]))
    /\ UNCHANGED <<vector_index, keyword_index, hybrid_query_engine, nodes,
                   conversation_history, ncalls, nsetups, turns, last_dir, askers>>

\* rag.py:143: keyword_index.storage_context.persist.
PersistKeyword(t, ok) ==
    /\ pc[t] = "persist_keyword"
    /\ IF ok
       THEN /\ storage' = [storage EXCEPT
                              !.keyword = Handle("stored", keyword_index.gen)]
            /\ Goto(t, "create_retrievers",
                    [frame[t] EXCEPT !.persisted = @ \cup {"keyword"}])
       ELSE /\ UNCHANGED storage
            /\ Goto(t, "idle", SetupFailed(frame[t]))
    /\ UNCHANGED <<vector_index, keyword_index, hybrid_query_engine, nodes,
                   conversation_history, ncalls, nsetups, turns, last_dir, askers>>

\* rag.py:145-149: the three retrievers, from the globals as they are now.
CreateRetrievers(t, ok) ==
    /\ pc[t] = "create_retrievers"
    /\ IF ok
       THEN Goto(t, "create_engine",
                 [frame[t] EXCEPT !.vector_retriever = vector_index,
                                  !.keyword_retriever = keyword_index,
                                  !.bm25_retriever = Handle("bm25", nodes.gen)])
       ELSE Goto(t, "idle", SetupFailed(frame[t]))
    /\ UNCHANGED <<vector_index, keyword_index, hybrid_query_engine, nodes,
                   conversation_history, storage, ncalls, nsetups, turns, last_dir, askers>>

\* Mutant: a setup that succeeds starts the conversation afresh.
CreateEngineResetsHistory(t, ok) ==
    /\ pc[t] = "create_engine"
    /\ IF ok
       THEN /\ hybrid_query_engine' =
                   Engine(frame[t].vector_retriever, frame[t].keyword_retriever,
                          frame[t].bm25_retriever)
            /\ conversation_history' = <<>>
            /\ Goto(t, "idle", [frame[t] EXCEPT !.ret = RetBool(TRUE)])
       ELSE /\ UNCHANGED <<hybrid_query_engine, conversation_history>>
            /\ Goto(t, "idle", SetupFailed(frame[t]))
    /\ UNCHANGED <<vector_index, keyword_index, nodes,
                   storage, ncalls, nsetups, turns, last_dir, askers>>

\* Mutant: a setup that fails at its last step leaves no engine behind.
CreateEngineFailureResets(t, ok) ==
    /\ pc[t] = "create_engine"
    /\ IF ok
       THEN /\ hybrid_query_engine' =
                   Engine(frame[t].vector_retriever, frame[t].keyword_retriever,
                          frame[t].bm25_retriever)
            /\ Goto(t, "idle", [frame[t] EXCEPT !.ret = RetBool(TRUE)])
       ELSE /\ hybrid_query_engine' = NoEngine
            /\ Goto(t, "idle", SetupFailed(frame[t]))
    /\ UNCHANGED <<vector_index, keyword_index, nodes,
                   conversation_history, storage, ncalls, nsetups, turns, last_dir,
                   askers>>

\* rag.py:151-161: the hybrid retriever and the query engine; return True.
CreateEngine(t, ok) ==
    /\ pc[t] = "create_engine"
    /\ IF ok
       THEN /\ hybrid_query_engine' =
                   Engine(frame[t].vector_retriever, frame[t].keyword_retriever,
                          frame[t].bm25_retriever)
            /\ Goto(t, "idle", [frame[t] EXCEPT !.ret = RetBool(TRUE)])
       ELSE /\ UNCHANGED hybrid_query_engine
            /\ Goto(t, "idle", SetupFailed(frame[t]))
    /\ UNCHANGED <<vector_index, keyword_index, nodes,
                   conversation_history, storage, ncalls, nsetups, turns, last_dir, askers>>


(***************************************************************************)
(* search_documents_with_context, rag.py:167-204, and its wrapper          *)
(* answer_news_question, rag.py:206-212                                    *)
(***************************************************************************)
Min(a, b) == IF a < b THEN a ELSE b

\* Python's s[-n:]
LastN(s, n) == SubSeq(s, Len(s) - Min(n, Len(s)) + 1, Len(s))

\* rag.py:181: one "User: ..." line and one "Assistant: ..." line per turn.
HistoryLines(h) ==
    [i \in 1..(2 * Len(h)) |->
        IF i % 2 = 1
        THEN [role |-> "User", text |-> h[(i + 1) \div 2].user]
        ELSE [role |-> "Assistant", text |-> h[i \div 2].assistant]]

\* Mutant: every stored turn goes into the prompt.
ContextPromptWholeHistory(history, query) ==
    IF history # <<>>
    THEN [wrapped |-> TRUE, lines |-> HistoryLines(history), q |-> query]
    ELSE [wrapped |-> FALSE, lines |-> <<>>, q |-> query]

\* Mutant: the prompt is the question alone, whatever the history holds.
ContextPromptVerbatim(history, query) ==
    [wrapped |-> FALSE, lines |-> <<>>, q |-> query]

\* rag.py:176-188: the context-aware query.
ContextPrompt(history, query) ==
    IF history # <<>>
    THEN [wrapped |-> TRUE,
          lines |-> HistoryLines(LastN(history, RecentTurns)),
          q |-> query]
    ELSE [wrapped |-> FALSE, lines |-> <<>>, q |-> query]

\* Mutant: the handler lets the exception go on.
OnSearchExceptionPropagates(e) == Raised(e)

\* rag.py:203-204: the handler of the try at rag.py:174 returns the error
\* text ...
OnSearchException(e) == RetStr(ErrorSearching(e))

\* Mutant: the handler records the error text as a turn.
HistoryWithErrorTurn(history, query, e) ==
    Append(history, Turn(query, ErrorSearching(e)))

\* ... and does not touch the history.
HistoryAfterException(history, query, e) == history

\* rag.py:208-212: answer_news_question around the awaited call.
AnswerNewsQuestion(r) ==
    IF r.kind = "raise" THEN RetStr(ErrorAnswering(r.text.id)) ELSE r

\* The call leaves search_documents_with_context with r, and
\* answer_news_question hands its caller what that gives.
Returned(f, r) == [f EXCEPT !.inner = r, !.ret = AnswerNewsQuestion(r)]

\* rag.py:193-196
AppendTurn(history, query, response) ==
    Append(history, Turn(query, StrResponse(response)))

\* rag.py:199
OverCapacity(history) == Len(history) > HistoryCap

\* Mutant: list.pop() drops the newest turn.
PopNewest(history) == SubSeq(history, 1, Len(history) - 1)

\* rag.py:200: list.pop(0)
PopOldest(history) == Tail(history)

\* The completion capability's text for a question: opaque, named after
\* the question it answers.
Responses(query) == {query.id}
RetrievalError == 1
CompletionError == 2
PopError == 3

\* The question of a call: a text that no recorded turn holds yet and that
\* no other thread is asking.
FreshQuestion(t) == Question(Len(turns) * NumThreads + t)

\* main.py:1001-1022, 1080: the handler of a message of user u has a worker
\* thread start rag.answer_news_question; only the question is handed on.
AnswerStart(t, u) ==
    /\ pc[t] = "idle"
    /\ ncalls < MaxCalls
    /\ ncalls' = ncalls + 1
    /\ Goto(t, "check_engine",
            [IdleFrame EXCEPT !.op = "answer", !.q = FreshQuestion(t),
                              !.hist0 = conversation_history,
                              !.handles0 = Handles,
                              !.after_dir = last_dir,
                              !.user = u, !.askers0 = askers])
    /\ UNCHANGED <<vector_index, keyword_index, hybrid_query_engine, nodes,
                   conversation_history, storage, nsetups, turns, last_dir, askers>>

\* rag.py:171-172
CheckEngine(t) ==
    /\ pc[t] = "check_engine"
    /\ IF hybrid_query_engine.kind = "none"
       THEN Goto(t, "idle",
                 Returned([frame[t] EXCEPT !.notinit = TRUE], RetStr(NotInitText)))
       ELSE Goto(t, "build_prompt", frame[t])
    /\ UNCHANGED <<vector_index, keyword_index, hybrid_query_engine, nodes,
                   conversation_history, storage, ncalls, nsetups, turns, last_dir, askers>>

\* Mutant: the question is recorded in the history when the prompt is
\* built, before anything was retrieved or answered.
BuildPromptRecordsFirst(t) ==
    /\ pc[t] = "build_prompt"
    /\ conversation_history' =
           Append(conversation_history, Turn(frame[t].q, NoText))
    /\ Goto(t, "retrieve",
            [frame[t] EXCEPT
                !.context_prompt = ContextPrompt(conversation_history, frame[t].q)])
    /\ UNCHANGED <<vector_index, keyword_index, hybrid_query_engine, nodes,
                   storage, ncalls, nsetups, turns, last_dir, askers>>

\* rag.py:175-188
BuildPrompt(t) ==
    /\ pc[t] = "build_prompt"
    /\ Goto(t, "retrieve",
            [frame[t] EXCEPT
                !.context_prompt = ContextPrompt(conversation_history, frame[t].q)])
    /\ UNCHANGED <<vector_index, keyword_index, hybrid_query_engine, nodes,
                   conversation_history, storage, ncalls, nsetups, turns, last_dir, askers>>

\* Mutant: a failed retrieval drops the engine, so that the next call
\* finds it uninitialized.
RetrieveDropsEngine(t, ok) ==
    /\ pc[t] = "retrieve"
    /\ IF ok
       THEN /\ UNCHANGED hybrid_query_engine
            /\ Goto(t, "complete", [frame[t] EXCEPT !.retrieved = TRUE])
       ELSE /\ hybrid_query_engine' = NoEngine
            /\ Goto(t, "idle",
                    Returned([frame[t] EXCEPT !.failed = "retrieve"],
                             OnSearchException(RetrievalError)))
    /\ UNCHANGED <<vector_index, keyword_index, nodes,
                   conversation_history, storage, ncalls, nsetups, turns, last_dir, askers>>

\* rag.py:190, first half of aquery: the engine runs its retriever.
Retrieve(t, ok) ==
    /\ pc[t] = "retrieve"
    /\ IF ok
       THEN Goto(t, "complete", [frame[t] EXCEPT !.retrieved = TRUE])
       ELSE Goto(t, "idle",
                 Returned([frame[t] EXCEPT !.failed = "retrieve"],
                          OnSearchException(RetrievalError)))
    /\ UNCHANGED <<vector_index, keyword_index, hybrid_query_engine, nodes,
                   conversation_history, storage, ncalls, nsetups, turns, last_dir, askers>>

\* Mutant: a completion call that raised is made once more.
CompleteRetries(t, ok, r) ==
    /\ pc[t] = "complete"
    /\ IF ok
       THEN /\ turns' = Append(turns, Turn(frame[t].q, StrResponse(r)))
            /\ Goto(t, "append",
                    [frame[t] EXCEPT !.completions = @ + 1, !.response = r])
       ELSE /\ UNCHANGED turns
            /\ IF frame[t].completions = 0
               THEN Goto(t, "complete", [frame[t] EXCEPT !.completions = @ + 1])
               ELSE Goto(t, "idle",
                         Returned([frame[t] EXCEPT !.completions = @ + 1,
                                                  !.failed = "complete"],
                                  OnSearchException(CompletionError)))
    /\ UNCHANGED <<vector_index, keyword_index, hybrid_query_engine, nodes,
                   conversation_history, storage, ncalls, nsetups, last_dir,
                   askers>>

\* rag.py:190, second half of aquery: the completion call, awaited.
Complete(t, ok, r) ==
    /\ pc[t] = "complete"
    /\ IF ok
       THEN /\ turns' = Append(turns, Turn(frame[t].q, StrResponse(r)))
            /\ UNCHANGED conversation_history
            /\ Goto(t, "append",
                    [frame[t] EXCEPT !.completions = @ + 1, !.response = r])
       ELSE /\ UNCHANGED turns
            /\ conversation_history' =
                   HistoryAfterException(conversation_history, frame[t].q,
                                         CompletionError)
            /\ Goto(t, "idle",
                    Returned([frame[t] EXCEPT !.completions = @ + 1,
                                             !.failed = "complete"],
                             OnSearchException(CompletionError)))
    /\ UNCHANGED <<vector_index, keyword_index, hybrid_query_engine, nodes,
                   storage, ncalls, nsetups, last_dir, askers>>

\* Mutant: the append writes back the list the call read when it started,
\* with its turn added.
AppendHistoryStale(t) ==
    /\ pc[t] = "append"
    /\ conversation_history' =
           AppendTurn(frame[t].hist0, frame[t].q, frame[t].response)
    /\ askers' = Append(frame[t].askers0, frame[t].user)
    /\ Goto(t, "check_len", frame[t])
    /\ UNCHANGED <<vector_index, keyword_index, hybrid_query_engine, nodes,
                   storage, ncalls, nsetups, turns, last_dir>>

\* rag.py:192-196
AppendHistory(t) ==
    /\ pc[t] = "append"
    /\ conversation_history' =
           AppendTurn(conversation_history, frame[t].q, frame[t].response)
    /\ askers' = Append(askers, frame[t].user)
    /\ Goto(t, "check_len", frame[t])
    /\ UNCHANGED <<vector_index, keyword_index, hybrid_query_engine, nodes,
                   storage, ncalls, nsetups, turns, last_dir>>

\* rag.py:199
CheckLen(t) ==
    /\ pc[t] = "check_len"
    /\ IF OverCapacity(conversation_history)
       THEN Goto(t, "pop", frame[t])
       ELSE Goto(t, "return", frame[t])
    /\ UNCHANGED <<vector_index, keyword_index, hybrid_query_engine, nodes,
                   conversation_history, storage, ncalls, nsetups, turns, last_dir, askers>>

\* rag.py:200; pop from an empty list raises IndexError, caught at rag.py:203.
PopHistory(t) ==
    /\ pc[t] = "pop"
    /\ IF conversation_history # <<>>
       THEN /\ conversation_history' = PopOldest(conversation_history)
            /\ askers' = IF askers # <<>> THEN PopOldest(askers) ELSE askers
            /\ Goto(t, "return", frame[t])
       ELSE /\ UNCHANGED <<conversation_history, askers>>
            /\ Goto(t, "idle",
                    Returned([frame[t] EXCEPT !.failed = "pop"],
                             OnSearchException(PopError)))
    /\ UNCHANGED <<vector_index, keyword_index, hybrid_query_engine, nodes,
                   storage, ncalls, nsetups, turns, last_dir>>

\* rag.py:202
ReturnAnswer(t) ==
    /\ pc[t] = "return"
    /\ Goto(t, "idle", Returned(frame[t], RetStr(StrResponse(frame[t].response))))
    /\ UNCHANGED <<vector_index, keyword_index, hybrid_query_engine, nodes,
                   conversation_history, storage, ncalls, nsetups, turns, last_dir, askers>>

(***************************************************************************)
(* The engine as the process starts: rag.py:38-43.  The storage directory  *)
(* is either absent or left by an earlier process.                         *)
(***************************************************************************)
NoStorage == [vector |-> NoneH, keyword |-> NoneH]
OldStorage == [vector |-> Handle("stored", 0), keyword |-> Handle("stored", 0)]

EngineInit ==
    /\ vector_index = NoneH
    /\ keyword_index = NoneH
    /\ hybrid_query_engine = NoEngine
    /\ nodes = NoneH
    /\ conversation_history = <<>>
    /\ storage \in {NoStorage, OldStorage}
    /\ pc = [t \in Threads |-> "idle"]
    /\ frame = [t \in Threads |-> IdleFrame]
    /\ ncalls = 0
    /\ nsetups = 0
    /\ turns = <<>>
    /\ last_dir = "none"
    /\ askers = <<>>

\* curatex_bot.py:28-32: the scheduler's globals as the module is loaded.
NoMessages == <<>>
NoTime == -1
NoChat == 0
Messages(k) == [i \in 1..MsgsPerSchedule |-> [sched |-> k, msg |-> i]]

BotIdle ==
    /\ scheduled_messages = NoMessages
    /\ scheduled_time = NoTime
    /\ target_chat_id = NoChat
    /\ is_scheduling_active = FALSE
    /\ clock = 0
    /\ tasks = <<>>
    /\ handler = "idle"
    /\ nschedules = 0
    /\ deliveries = [k \in 1..MaxSchedules |-> [i \in 1..MsgsPerSchedule |-> 0]]
    /\ stopped = FALSE
    /\ late_attempts = 0

\* main.py:31 and ConversationHandler.END of the library.
QUERY == 0
NEWS_COUNT == 1
DELIVERY_TIME == 2
CONFIRM == 3
END == -1

Chats == 1..NumChats
\* The users of the input conversation.  A handler reads and writes only
\* the session and the conversations of the user who sent the update, so
\* one user in several chats shows all there is.
ConvUsers == {1}
\* The conversation key is (chat, user): per_chat and per_user are True.
ConvKeys == Chats \X ConvUsers
\* main.py:34: user_sessions = {}
NoSessions == [u \in {} |-> <<>>]
\* main.py:275: user_sessions[user_id] = {}
EmptySession == [k \in {} |-> <<>>]
NoUpdate ==
    [chat |-> 0, user |-> 0, command |-> "", text |-> <<>>, state0 |-> END,
     sessions0 |-> NoSessions, raised |-> "none"]

ConvIdle ==
    /\ conversations = [key \in ConvKeys |-> END]
    /\ user_sessions = NoSessions
    /\ last_update = NoUpdate

\* main.py:37: users_with_news_context = set(); no pipeline is running.
NoSession == [k \in {} |-> <<>>]
NoFiles == [kind |-> "none", files |-> <<>>]
PipeIdleWith(users) ==
    /\ step = "idle"
    /\ session_data = NoSession
    /\ sender = 0
    /\ curated_files = NoFiles
    /\ users_with_news_context = users
    /\ setups0 = 0
    /\ ran = <<>>
    /\ outcome = "none"
    /\ nruns = 0

PipeIdle == PipeIdleWith({})

FuseIdle ==
    /\ rpc = "idle"
    /\ ridx = 0
    /\ all_results = <<>>
    /\ unique_nodes = <<>>
    /\ strategy_out = <<>>
    /\ fused = <<>>
    /\ replay = <<>>
    /\ first_fused = <<>>

(***************************************************************************)
(* Sequential use: one worker, so every call runs to its end before the    *)
(* next one starts.  rag.py never sees who asks (main.py:1022 hands on     *)
(* the question only), so here every answer call is made for user 1;       *)
(* SpecUsers below lets the users vary.                                    *)
(***************************************************************************)
Init == EngineInit /\ FuseIdle /\ BotIdle /\ ConvIdle /\ PipeIdle

Next ==
    \/ \E dir \in DirStates : SetupStart(1, dir)
    \/ \E ok \in BOOLEAN : LoadVector(1, ok)
    \/ \E ok \in BOOLEAN : LoadKeyword(1, ok)
    \/ \E ok \in BOOLEAN : LoadPathChunk(1, ok)
    \/ \E ok \in BOOLEAN : ReadDocuments(1, ok)
    \/ \E ok \in BOOLEAN : Chunk(1, ok)
    \/ \E ok \in BOOLEAN : BuildVector(1, ok)
    \/ \E ok \in BOOLEAN : BuildKeyword(1, ok)
    \/ \E ok \in BOOLEAN : PersistVector(1, ok)
    \/ \E ok \in BOOLEAN : PersistKeyword(1, ok)
    \/ \E ok \in BOOLEAN : CreateRetrievers(1, ok)
    \/ \E ok \in BOOLEAN : CreateEngine(1, ok)
    \/ AnswerStart(1, 1)
    \/ CheckEngine(1)
    \/ BuildPrompt(1)
    \/ \E ok \in BOOLEAN : Retrieve(1, ok)
    \/ \E ok \in BOOLEAN, r \in Responses(frame[1].q) : Complete(1, ok, r)
    \/ AppendHistory(1)
    \/ CheckLen(1)
    \/ PopHistory(1)
    \/ ReturnAnswer(1)

Spec == Init /\ [][Next]_vars


(***************************************************************************)
(* Concurrent use: main.py runs every call on a worker thread of the       *)
(* default executor (main.py:984, 1022), each answer call with an event    *)
(* loop of its own (main.py:1077-1080), and rag.py takes no lock, so the   *)
(* calls in flight interleave between any two steps.  The runs start from  *)
(* a fresh process or from a warm one, in which one setup has built the    *)
(* engine and k calls have been answered one after the other.              *)
(***************************************************************************)
WarmTurn(i) ==
    Turn(Question((i - 1) * NumThreads + 1), StrResponse((i - 1) * NumThreads + 1))
WarmHistory(k) == [i \in 1..k |-> WarmTurn(i)]
WarmLengths == {0, HistoryCap - 1, HistoryCap}

Warm(k) ==
    /\ vector_index = Handle("built", 1)
    /\ keyword_index = Handle("built", 1)
    /\ nodes = NodeSet(1)
    /\ hybrid_query_engine =
           Engine(Handle("built", 1), Handle("built", 1), Handle("bm25", 1))
    /\ storage = [vector |-> Handle("stored", 1), keyword |-> Handle("stored", 1)]
    /\ conversation_history = WarmHistory(k)
    /\ turns = WarmHistory(k)
    /\ last_dir = "ok"
    /\ askers = [i \in 1..k |-> 1]

Fresh ==
    /\ vector_index = NoneH
    /\ keyword_index = NoneH
    /\ hybrid_query_engine = NoEngine
    /\ nodes = NoneH
    /\ conversation_history = <<>>
    /\ storage = NoStorage
    /\ turns = <<>>
    /\ last_dir = "none"
    /\ askers = <<>>

\* A warm process has run the pipeline for user 1, who asked the k
\* questions (main.py:986-989).
FreshOrWarm ==
    \/ Fresh /\ PipeIdle
    \/ \E k \in WarmLengths : Warm(k) /\ PipeIdleWith({1})

InitConc ==
    /\ FreshOrWarm
    /\ pc = [t \in Threads |-> "idle"]
    /\ frame = [t \in Threads |-> IdleFrame]
    /\ ncalls = MaxCalls - MaxConcCalls
    /\ nsetups = MaxSetups - MaxConcSetups
    /\ FuseIdle
    /\ BotIdle
    /\ ConvIdle

NextConc ==
    \E t \in Threads :
        \/ \E dir \in DirStates : SetupStart(t, dir)
        \/ \E ok \in BOOLEAN : LoadVector(t, ok)
        \/ \E ok \in BOOLEAN : LoadKeyword(t, ok)
        \/ \E ok \in BOOLEAN : LoadPathChunk(t, ok)
        \/ \E ok \in BOOLEAN : ReadDocuments(t, ok)
        \/ \E ok \in BOOLEAN : Chunk(t, ok)
        \/ \E ok \in BOOLEAN : BuildVector(t, ok)
        \/ \E ok \in BOOLEAN : BuildKeyword(t, ok)
        \/ \E ok \in BOOLEAN : PersistVector(t, ok)
        \/ \E ok \in BOOLEAN : PersistKeyword(t, ok)
        \/ \E ok \in BOOLEAN : CreateRetrievers(t, ok)
        \/ \E ok \in BOOLEAN : CreateEngine(t, ok)
        \/ \E u \in Users : AnswerStart(t, u)
        \/ CheckEngine(t)
        \/ BuildPrompt(t)
        \/ \E ok \in BOOLEAN : Retrieve(t, ok)
        \/ \E ok \in BOOLEAN, r \in Responses(frame[t].q) : Complete(t, ok, r)
        \/ AppendHistory(t)
        \/ CheckLen(t)
        \/ PopHistory(t)
        \/ ReturnAnswer(t)

SpecConc == InitConc /\ [][NextConc]_vars

(***************************************************************************)
(* Several users, one call at a time: the calls of Spec, each answer call  *)
(* made for any of the users, from a fresh or a warm process.              *)
(***************************************************************************)
NextUsers ==
    \/ \E dir \in DirStates : SetupStart(1, dir)
    \/ \E ok \in BOOLEAN : LoadVector(1, ok)
    \/ \E ok \in BOOLEAN : LoadKeyword(1, ok)
    \/ \E ok \in BOOLEAN : LoadPathChunk(1, ok)
    \/ \E ok \in BOOLEAN : ReadDocuments(1, ok)
    \/ \E ok \in BOOLEAN : Chunk(1, ok)
    \/ \E ok \in BOOLEAN : BuildVector(1, ok)
    \/ \E ok \in BOOLEAN : BuildKeyword(1, ok)
    \/ \E ok \in BOOLEAN : PersistVector(1, ok)
    \/ \E ok \in BOOLEAN : PersistKeyword(1, ok)
    \/ \E ok \in BOOLEAN : CreateRetrievers(1, ok)
    \/ \E ok \in BOOLEAN : CreateEngine(1, ok)
    \/ \E u \in Users : AnswerStart(1, u)
    \/ CheckEngine(1)
    \/ BuildPrompt(1)
    \/ \E ok \in BOOLEAN : Retrieve(1, ok)
    \/ \E ok \in BOOLEAN, r \in Responses(frame[1].q) : Complete(1, ok, r)
    \/ AppendHistory(1)
    \/ CheckLen(1)
    \/ PopHistory(1)
    \/ ReturnAnswer(1)

SpecUsers == InitConc /\ [][NextUsers]_vars

(***************************************************************************)
(* HybridRetriever._retrieve, rag.py:51-75                                 *)
(*                                                                         *)
(* A result is a NodeWithScore: the node's identity, its score (None, or   *)
(* a number) and, as a history field, the retriever that returned it.      *)
(* None is the empty tuple and a number v the tuple <<v>>.                 *)
(***************************************************************************)
NodeIds == {"n1", "n2"}
NoneScore == <<>>
Num(v) == <<v>>
Scores == {NoneScore, Num(-1), Num(0), Num(1), Num(2)}
Result(n, sc, i) == [node |-> n, score |-> sc, src |-> i]

\* Python's truth value of a score: None and 0 are false.
Truthy(sc) == sc # NoneScore /\ sc[1] # 0

\* What retriever i may return (rag.py:56): up to MaxResults results over
\* distinct nodes, the scored ones ranked best first.
ResultLists(i) ==
    {l \in UNION {[1..n -> {Result(nd, sc, i) : nd \in NodeIds, sc \in Scores}] :
                      n \in 0..MaxResults} :
        \A a, b \in 1..Len(l) :
            a < b =>
                /\ l[a].node # l[b].node
                /\ (l[a].score # NoneScore /\ l[b].score # NoneScore) =>
                       l[a].score[1] >= l[b].score[1]}

\* What the retriever whose turn it is may return.
ResultListsOf == [i \in 1..NumRetrievers |-> ResultLists(i)]
Returnable == IF rpc = "retrievers" THEN ResultListsOf[ridx] ELSE {}

\* Position of node n in the dict (insertion order), 0 if absent.
KeyIndex(u, n) ==
    IF \E i \in 1..Len(u) : u[i].node = n
    THEN CHOOSE i \in 1..Len(u) : u[i].node = n
    ELSE 0

\* Mutant: the test "res.score and" is left out, so anything replaces a
\* stored result whose score is None or 0.
ReplacesUnscored(res, stored) ==
    \/ ~Truthy(stored.score)
    \/ Truthy(res.score) /\ res.score[1] > stored.score[1]

\* Mutant: ">=" in place of ">".
ReplacesOnTie(res, stored) ==
    /\ Truthy(res.score)
    /\ ~Truthy(stored.score) \/ res.score[1] >= stored.score[1]

\* rag.py:70-71: the test that lets res replace the stored result.  Both
\* objects are NodeWithScore, which always has the attribute score.
Replaces(res, stored) ==
    /\ Truthy(res.score)
    /\ ~Truthy(stored.score) \/ res.score[1] > stored.score[1]

\* Mutant: no test of "node_id not in unique_nodes".
FuseOneNoDedup(u, res) == Append(u, res)

\* rag.py:64-72: one round of the loop over all_results.
FuseOne(u, res) ==
    IF KeyIndex(u, res.node) = 0
    THEN Append(u, res)
    ELSE IF Replaces(res, u[KeyIndex(u, res.node)])
         THEN [u EXCEPT ![KeyIndex(u, res.node)] = res]
         ELSE u

\* Mutant: a failing retriever throws away what the earlier ones returned.
DropCollected(results) == [caught |-> TRUE, all_results |-> <<>>]

\* rag.py:58-60: the handler catches the exception, prints a warning and
\* goes on with the next retriever; all_results keeps what it holds.
AfterRetrieverException(results) == [caught |-> TRUE, all_results |-> results]

\* Deterministic retrieval over unchanged indexes: in a second call with
\* the same query retriever i does what it did in the first.
AsBefore(i, out) == replay # <<>> => out = replay[i]

\* rag.py:52-53: _retrieve is called.
RetrieveBegin ==
    /\ rpc = "idle"
    /\ rpc' = "retrievers"
    /\ ridx' = 1
    /\ all_results' = <<>>
    /\ UNCHANGED <<unique_nodes, strategy_out, fused>>
    /\ UNCHANGED <<engineVars, botVars, convVars, pipeVars, replay, first_fused>>

\* Mutant: the merge starts as soon as one retriever is through.
AfterRetrieverMergesAtOnce == rpc' = "fuse" /\ ridx' = 1

\* rag.py:54-62: the for loop goes on to the next retriever; the merge
\* loop follows the last one.
AfterRetriever ==
    IF ridx = NumRetrievers
    THEN rpc' = "fuse" /\ ridx' = 1
    ELSE rpc' = "retrievers" /\ ridx' = ridx + 1

\* rag.py:54-57: retriever ridx returns results, which extend all_results.
RetrieverReturns(results) ==
    /\ rpc = "retrievers"
    /\ AsBefore(ridx, [raised |-> FALSE, results |-> results])
    /\ all_results' = all_results \o results
    /\ strategy_out' = Append(strategy_out, [raised |-> FALSE, results |-> results])
    /\ AfterRetriever
    /\ UNCHANGED <<unique_nodes, fused>>
    /\ UNCHANGED <<engineVars, botVars, convVars, pipeVars, replay, first_fused>>

\* rag.py:58-60: retriever ridx raises.
RetrieverRaises ==
    /\ rpc = "retrievers"
    /\ AsBefore(ridx, [raised |-> TRUE, results |-> <<>>])
    /\ all_results' = AfterRetrieverException(all_results).all_results
    /\ strategy_out' = Append(strategy_out, [raised |-> TRUE, results |-> <<>>])
    /\ IF AfterRetrieverException(all_results).caught
       THEN AfterRetriever
       ELSE rpc' = "raised" /\ UNCHANGED ridx
    /\ UNCHANGED <<unique_nodes, fused>>
    /\ UNCHANGED <<engineVars, botVars, convVars, pipeVars, replay, first_fused>>

\* Mutant: the collected results are merged in no fixed order, from either
\* end of the list.
FuseStepAnyOrder ==
    /\ rpc = "fuse"
    /\ ridx <= Len(all_results)
    /\ \E i \in {ridx, Len(all_results) - ridx + 1} :
           unique_nodes' = FuseOne(unique_nodes, all_results[i])
    /\ ridx' = ridx + 1
    /\ UNCHANGED <<rpc, all_results, strategy_out, fused>>
    /\ UNCHANGED <<engineVars, botVars, convVars, pipeVars, replay, first_fused>>

\* rag.py:64-72: the loop body for all_results[ridx].
FuseStep ==
    /\ rpc = "fuse"
    /\ ridx <= Len(all_results)
    /\ unique_nodes' = FuseOne(unique_nodes, all_results[ridx])
    /\ ridx' = ridx + 1
    /\ UNCHANGED <<rpc, all_results, strategy_out, fused>>
    /\ UNCHANGED <<engineVars, botVars, convVars, pipeVars, replay, first_fused>>

\* rag.py:74-75: list(unique_nodes.values()).
FuseReturn ==
    /\ rpc = "fuse"
    /\ ridx > Len(all_results)
    /\ fused' = unique_nodes
    /\ rpc' = "done"
    /\ UNCHANGED <<ridx, all_results, unique_nodes, strategy_out>>
    /\ UNCHANGED <<engineVars, botVars, convVars, pipeVars, replay, first_fused>>

NextFuse ==
    \/ RetrieveBegin
    \/ \E results \in Returnable : RetrieverReturns(results)
    \/ RetrieverRaises
    \/ FuseStep
    \/ FuseReturn

\* rag.py:51-63: _retrieve is called a second time with the same query;
\* all_results and unique_nodes are locals, made anew.
RetrieveAgain ==
    /\ rpc = "done"
    /\ replay = <<>>
    /\ rpc' = "retrievers"
    /\ ridx' = 1
    /\ all_results' = <<>>
    /\ unique_nodes' = <<>>
    /\ strategy_out' = <<>>
    /\ fused' = <<>>
    /\ replay' = strategy_out
    /\ first_fused' = fused
    /\ UNCHANGED <<engineVars, botVars, convVars, pipeVars>>

\* The engine stands still while one _retrieve call is followed.
InitFuse ==
    /\ Fresh
    /\ pc = [t \in Threads |-> "idle"]
    /\ frame = [t \in Threads |-> IdleFrame]
    /\ ncalls = 0
    /\ nsetups = 0
    /\ FuseIdle
    /\ BotIdle
    /\ ConvIdle
    /\ PipeIdle

SpecFuse == InitFuse /\ [][NextFuse]_vars

\* Two _retrieve calls with the same query, one after the other.
NextFuseTwice ==
    \/ RetrieveBegin
    \/ \E results \in Returnable : RetrieverReturns(results)
    \/ RetrieverRaises
    \/ FuseStep
    \/ FuseReturn
    \/ RetrieveAgain

SpecFuseTwice == InitFuse /\ [][NextFuseTwice]_vars

\* The fusion of a list of results, as one fold.
RECURSIVE FuseAll(_, _)
FuseAll(u, l) == IF l = <<>> THEN u ELSE FuseAll(FuseOne(u, Head(l)), Tail(l))

\* The results of the retrievers that did not raise, in retriever order.
RECURSIVE Surviving(_)
Surviving(out) ==
    IF out = <<>> THEN <<>>
    ELSE (IF Head(out).raised THEN <<>> ELSE Head(out).results) \o Surviving(Tail(out))

(***************************************************************************)
(* C1 (as the spec states it): for every node returned by at least one     *)
(* strategy, the fused result set retains the result with the highest      *)
(* score among all results any strategy returned for that node, for all    *)
(* integer scores, zero and negative ones included; a node returned by     *)
(* only one strategy keeps its sole score.                                 *)
(***************************************************************************)
ResultsFor(n) == {i \in 1..Len(all_results) : all_results[i].node = n}

C1_HighestScoreWins ==
    rpc = "done" =>
        \A n \in NodeIds :
            (ResultsFor(n) # {} /\
             \A i \in ResultsFor(n) : all_results[i].score # NoneScore) =>
                /\ KeyIndex(fused, n) # 0
                /\ \A i \in ResultsFor(n) :
                       fused[KeyIndex(fused, n)].score[1] >= all_results[i].score[1]
                /\ \E i \in ResultsFor(n) :
                       fused[KeyIndex(fused, n)] = all_results[i]

(***************************************************************************)
(* C2: _retrieve tolerates partial failure: whichever retrievers raise,    *)
(* the fused output is the fusion of the results of the remaining ones;    *)
(* if all three raise the output is empty; no exception leaves _retrieve.  *)
(***************************************************************************)
C2_PartialFailure ==
    /\ rpc # "raised"
    /\ rpc \in {"fuse", "done"} => all_results = Surviving(strategy_out)
    /\ rpc = "done" =>
           /\ fused = FuseAll(<<>>, Surviving(strategy_out))
           /\ (\A i \in 1..NumRetrievers : strategy_out[i].raised) => fused = <<>>

\* The vector retriever raised, the other two returned results, and the
\* fused output holds them.
C2_Witness ==
    /\ rpc = "done"
    /\ strategy_out[1].raised
    /\ ~strategy_out[2].raised /\ strategy_out[2].results # <<>>
    /\ ~strategy_out[3].raised /\ strategy_out[3].results # <<>>
    /\ strategy_out[2].results[1].node # strategy_out[3].results[1].node
    /\ Len(fused) = 2

(***************************************************************************)
(* The caller in main.py                                                   *)
(***************************************************************************)
\* main.py:1070-1089: _answer_question_sync hands on the answer; an
\* exception becomes None.
AnswerQuestionSync(r) ==
    IF r.kind = "raise" THEN [kind |-> "None", text |-> NoText, ok |-> FALSE] ELSE r

\* answer.strip() leaves nothing: only an empty response text.
IsBlank(text) == text.tag = "response" /\ text.id = 0

\* main.py:1024-1060: what handle_news_question sends for the value it got:
\* the "Answer:" message or the "couldn't find a relevant answer" message.
ReplyTo(r) ==
    IF r.kind = "str" /\ ~IsBlank(r.text) THEN "answer" ELSE "sorry"

(***************************************************************************)
(* State predicates used by the properties                                 *)
(***************************************************************************)
AnswerDone(t) == pc[t] = "idle" /\ frame[t].op = "answer"
SetupDone(t) == pc[t] = "idle" /\ frame[t].op = "setup"
Both == {"vector", "keyword"}

TripleReady ==
    /\ vector_index.kind # "none"
    /\ keyword_index.kind # "none"
    /\ hybrid_query_engine.kind = "engine"

Uninitialized ==
    /\ vector_index.kind = "none"
    /\ keyword_index.kind = "none"
    /\ hybrid_query_engine.kind = "none"

(***************************************************************************)
(* C3: after any number of sequential answer calls that each obtained a    *)
(* response, conversation_history holds at most 10 turns, and they are     *)
(* the most recent min(n, 10) (question, answer) pairs in chronological    *)
(* order.                                                                  *)
(***************************************************************************)
C3_HistoryBounded ==
    pc[1] = "idle" =>
        /\ Len(conversation_history) <= HistoryCap
        /\ Len(conversation_history) = Min(Len(turns), HistoryCap)
        /\ conversation_history = LastN(turns, HistoryCap)

\* More than 10 calls obtained a response, so the oldest turns were evicted.
C3_Witness ==
    /\ pc[1] = "idle"
    /\ Len(turns) > HistoryCap + 1
    /\ conversation_history[1] = turns[Len(turns) - HistoryCap + 1]

(***************************************************************************)
(* C4 (as the spec states it): after any sequence of setup calls, either   *)
(* the full triple is ready, or the last setup reported failure and the    *)
(* engine is uninitialized; never only some of the indexes.                *)
(***************************************************************************)
C4_AllOrNothing ==
    pc[1] = "idle" =>
        \/ TripleReady
        \/ /\ Uninitialized
           /\ frame[1].op = "setup" => frame[1].ret = RetBool(FALSE)

(***************************************************************************)
(* C5 (as the spec states it): an answer call made before any successful   *)
(* setup fails with a not-initialized condition that the caller can tell   *)
(* apart from an answer; it runs neither retrieval nor the completion      *)
(* call and leaves conversation_history unchanged.                         *)
(***************************************************************************)
C5_NotInitializedIsDistinct ==
    \A t \in Threads :
        (AnswerDone(t) /\ frame[t].notinit) =>
            /\ ReplyTo(AnswerQuestionSync(frame[t].ret)) # "answer"
            /\ ~frame[t].retrieved
            /\ frame[t].completions = 0
            /\ conversation_history = frame[t].hist0

(***************************************************************************)
(* C6 (as the spec states it): when the completion call raises, the        *)
(* synthetic error answer is still appended to the history as a turn       *)
(* (question, error text).                                                 *)
(***************************************************************************)
C6_ErrorTurnAppended ==
    (AnswerDone(1) /\ frame[1].failed = "complete") =>
        /\ conversation_history # <<>>
        /\ conversation_history[Len(conversation_history)] =
               Turn(frame[1].q, frame[1].ret.text)

(***************************************************************************)
(* C6 (amended): when the completion call raises, the call returns the     *)
(* synthetic error text and the history is left exactly as it was: no      *)
(* turn is appended for the failed call.                                   *)
(***************************************************************************)
C6_ErrorTurnNotAppended ==
    (AnswerDone(1) /\ frame[1].failed = "complete") =>
        /\ frame[1].ret = RetStr(ErrorSearching(CompletionError))
        /\ conversation_history = frame[1].hist0
        /\ \A i \in 1..Len(conversation_history) :
               conversation_history[i].user # frame[1].q

\* A completion call failed with earlier turns in the history.
C6_Witness ==
    /\ AnswerDone(1)
    /\ frame[1].failed = "complete"
    /\ frame[1].completions = 1
    /\ Len(conversation_history) > 1

(***************************************************************************)
(* C7: an answer call never propagates an exception from retrieval or      *)
(* completion: search_documents_with_context and answer_news_question      *)
(* both return a string, whatever failed inside.                           *)
(***************************************************************************)
C7_AnswerReturnsString ==
    \A t \in Threads :
        AnswerDone(t) =>
            /\ frame[t].inner.kind = "str"
            /\ frame[t].ret.kind = "str"
            /\ frame[t].failed # "no" =>
                   frame[t].ret.text.tag = "Error searching documents: "

\* After a successful setup, a call whose completion raised has returned.
C7_Witness ==
    /\ AnswerDone(1)
    /\ hybrid_query_engine.kind = "engine"
    /\ frame[1].failed = "complete"
    /\ frame[1].ret.kind = "str"

(***************************************************************************)
(* C9 (as the spec states it): a successful setup took one of two paths:   *)
(* if both persisted indexes loaded, neither index was built and nothing   *)
(* was persisted, and the lexical index is over the freshly chunked        *)
(* nodes; otherwise all three were built from the node set and the vector  *)
(* and keyword indexes were persisted before the retrievers were created.  *)
(* Both paths end with the indexes ready.                                  *)
(***************************************************************************)
C9_TwoPaths ==
    (SetupDone(1) /\ frame[1].ret = RetBool(TRUE)) =>
        /\ TripleReady
        /\ hybrid_query_engine.bm25 = Handle("bm25", frame[1].gen)
        /\ frame[1].loaded = Both =>
               /\ frame[1].built = {}
               /\ frame[1].persisted = {}
        /\ frame[1].loaded # Both =>
               /\ frame[1].built = Both
               /\ frame[1].persisted = Both

(***************************************************************************)
(* C10 (as the spec states it): a setup against a missing directory or a   *)
(* directory with no .txt files returns False without raising and leaves   *)
(* every index handle unchanged, and an answer call that follows it fails  *)
(* with the not-initialized condition rather than returning an answer.     *)
(***************************************************************************)
EmptyCorpus == {"missing", "no_txt"}

C10_EmptyCorpus ==
    /\ (SetupDone(1) /\ frame[1].dir \in EmptyCorpus) =>
           /\ frame[1].ret = RetBool(FALSE)
           /\ Handles = frame[1].handles0
    /\ (AnswerDone(1) /\ frame[1].after_dir \in EmptyCorpus) =>
           /\ frame[1].notinit
           /\ ReplyTo(AnswerQuestionSync(frame[1].ret)) # "answer"


(***************************************************************************)
(* C8 (as the spec states it): concurrent answer calls serialize their     *)
(* read-modify-write of conversation_history: no two answer calls are      *)
(* ever inside the append/evict step (rag.py:193-200) at the same time.    *)
(***************************************************************************)
InHistoryUpdate(t) == pc[t] \in {"check_len", "pop"}

C8_HistoryUpdateExclusive ==
    \A t1, t2 \in Threads :
        t1 # t2 => ~(InHistoryUpdate(t1) /\ InHistoryUpdate(t2))

(***************************************************************************)
(* C11 (as the spec states it): after every successful setup, on the load  *)
(* path or on the build path, the vector, keyword and lexical indexes the  *)
(* engine retrieves from are all over the same node set, the one chunked   *)
(* in that setup call.                                                     *)
(***************************************************************************)
C11_OneNodeSet ==
    (SetupDone(1) /\ frame[1].ret = RetBool(TRUE)) =>
        /\ nodes = NodeSet(frame[1].gen)
        /\ hybrid_query_engine.vec.gen = frame[1].gen
        /\ hybrid_query_engine.kw.gen = frame[1].gen
        /\ hybrid_query_engine.bm25.gen = frame[1].gen

(***************************************************************************)
(* C12: the augmented query of an answer call is the question verbatim     *)
(* when the history is empty; otherwise it is the wrapped prompt holding   *)
(* exactly the last 4 turns of the history (all of them if fewer), oldest  *)
(* first, each as a question line followed by an answer line, and then     *)
(* the new question: no older turn is in it.                               *)
(***************************************************************************)
PromptBuilt(t) == frame[t].op = "answer" /\ frame[t].context_prompt # NoPrompt

C12_AugmentedQuery ==
    LET p == frame[1].context_prompt
        h == frame[1].hist0
        k == IF Len(h) < RecentTurns THEN Len(h) ELSE RecentTurns
    IN  PromptBuilt(1) =>
            /\ p.q = frame[1].q
            /\ h = <<>> => ~p.wrapped /\ p.lines = <<>>
            /\ h # <<>> =>
                   /\ p.wrapped
                   /\ Len(p.lines) = 2 * k
                   /\ \A j \in 1..k :
                          /\ p.lines[2 * j - 1] =
                                 [role |-> "User", text |-> h[Len(h) - k + j].user]
                          /\ p.lines[2 * j] =
                                 [role |-> "Assistant",
                                  text |-> h[Len(h) - k + j].assistant]

\* A call whose history held more than 4 turns built its prompt from the
\* last 4 of them.
C12_Witness ==
    /\ PromptBuilt(1)
    /\ Len(frame[1].hist0) > RecentTurns
    /\ Len(frame[1].context_prompt.lines) = 2 * RecentTurns
    /\ frame[1].context_prompt.lines[1].text =
           frame[1].hist0[Len(frame[1].hist0) - RecentTurns + 1].user

(***************************************************************************)
(* C13: the fused output holds exactly one result for each node identity   *)
(* that at least one retriever that did not raise returned, and no result  *)
(* for any other node; every result in it is one a retriever returned.     *)
(***************************************************************************)
SurvivingResults == Surviving(strategy_out)

C13_OnePerNode ==
    rpc = "done" =>
        /\ \A i, j \in 1..Len(fused) : i # j => fused[i].node # fused[j].node
        /\ {fused[i].node : i \in 1..Len(fused)} =
               {SurvivingResults[i].node : i \in 1..Len(SurvivingResults)}
        /\ \A i \in 1..Len(fused) :
               \E j \in 1..Len(SurvivingResults) : fused[i] = SurvivingResults[j]

\* Two retrievers returned the same node, the third one another node.
C13_Witness ==
    /\ rpc = "done"
    /\ Len(SurvivingResults) = 3
    /\ SurvivingResults[1].node = SurvivingResults[2].node
    /\ SurvivingResults[3].node # SurvivingResults[1].node
    /\ Len(fused) = 2

(***************************************************************************)
(* C14: a result whose score is None never replaces a result already       *)
(* stored for its node, and a stored result whose score is None is not     *)
(* replaced by another result whose score is None: whenever the result     *)
(* kept for a node has score None, it is the first result collected for    *)
(* that node.                                                              *)
(***************************************************************************)
FirstFor(n) == CHOOSE i \in ResultsFor(n) : \A j \in ResultsFor(n) : i <= j

C14_NoneNeverReplaces ==
    rpc \in {"fuse", "done"} =>
        \A i \in 1..Len(unique_nodes) :
            unique_nodes[i].score = NoneScore =>
                unique_nodes[i] = all_results[FirstFor(unique_nodes[i].node)]

\* A scored result is stored first; two results without a score follow for
\* the same node and the scored one is kept.
C14_Witness ==
    /\ rpc = "done"
    /\ Len(all_results) = 3
    /\ \A i \in 1..3 : all_results[i].node = all_results[1].node
    /\ all_results[1].score # NoneScore
    /\ all_results[2].score = NoneScore
    /\ all_results[3].score = NoneScore
    /\ fused = <<all_results[1]>>

(***************************************************************************)
(* C15: when retrievers report equal scores for the same node, the result  *)
(* of the earlier retriever in the order vector, keyword, lexical is       *)
(* kept: no result collected before the kept one has the kept one's node   *)
(* and score.                                                              *)
(***************************************************************************)
C15_TieKeepsEarlier ==
    rpc = "done" =>
        \A i \in 1..Len(fused) : \A j \in 1..Len(all_results) :
            (all_results[j].node = fused[i].node
                 /\ all_results[j].score = fused[i].score)
                => all_results[j].src >= fused[i].src

\* The vector and the keyword retriever report the same non-zero score for
\* one node; the vector retriever's result is the output.
C15_Witness ==
    /\ rpc = "done"
    /\ Len(all_results) = 2
    /\ all_results[1].node = all_results[2].node
    /\ all_results[1].score = all_results[2].score
    /\ Truthy(all_results[1].score)
    /\ all_results[1].src = 1 /\ all_results[2].src = 2
    /\ fused = <<all_results[1]>>

(***************************************************************************)
(* C16: a setup call made with a corpus directory that can be read and     *)
(* with persisted storage that loads, and so also the second of two such   *)
(* calls in a row, reports success without building or persisting the      *)
(* vector or the keyword index: both are the loaded ones, the storage is   *)
(* as it was, and only the lexical index is made anew, over the nodes      *)
(* chunked in this call.                                                   *)
(***************************************************************************)
ValidStorage(st) == st.vector.kind = "stored" /\ st.keyword.kind = "stored"

\* No step of the call raised: the loads did not fail and nothing after
\* them did.
NothingRaised(f) == f.path # "build" /\ f.failed = "no"

ThisTurn(f) == Turn(f.q, StrResponse(f.response))
ResponseObtained(f) == f.retrieved /\ f.completions = 1 /\ f.response # 0

C17_StepOrder ==
    frame[1].op = "answer" =>
        /\ PromptBuilt(1) =>
               frame[1].context_prompt = ContextPrompt(frame[1].hist0, frame[1].q)
        /\ (frame[1].retrieved \/ frame[1].completions > 0) => PromptBuilt(1)
        /\ (pc[1] = "complete" \/ frame[1].completions > 0) => frame[1].retrieved
        /\ frame[1].response # 0 => frame[1].completions = 1
        /\ conversation_history # frame[1].hist0 =>
               /\ ResponseObtained(frame[1])
               /\ conversation_history \in
                      {Append(frame[1].hist0, ThisTurn(frame[1])),
                       Tail(Append(frame[1].hist0, ThisTurn(frame[1])))}
        /\ pc[1] \in {"check_engine", "build_prompt", "retrieve", "complete",
                      "append"} =>
               conversation_history = frame[1].hist0

\* A call that went through all its steps: prompt from a non-empty
\* history, retrieval, one completion, and then its turn in the history.
C17_Witness ==
    /\ AnswerDone(1)
    /\ frame[1].hist0 # <<>>
    /\ frame[1].context_prompt.wrapped
    /\ ResponseObtained(frame[1])
    /\ conversation_history = Append(frame[1].hist0, ThisTurn(frame[1]))

(***************************************************************************)
(* C18: no setup call, successful or failed, first or repeated, changes    *)
(* conversation_history: at every step of a setup call, and when it has    *)
(* returned, the history is what it was when the call started.             *)
(***************************************************************************)
C18_SetupKeepsHistory ==
    frame[1].op = "setup" => conversation_history = frame[1].hist0

\* A repeated setup that succeeded while the history held turns.
C18_Witness ==
    /\ SetupDone(1)
    /\ frame[1].ret = RetBool(TRUE)
    /\ frame[1].gen > 1
    /\ frame[1].hist0 # <<>>
    /\ conversation_history = frame[1].hist0

(***************************************************************************)
(* C20: no answer call changes the vector index handle, the keyword index  *)
(* handle, the node set or the engine handle: at every step of an answer   *)
(* call, and when it has returned, they are what they were when the call   *)
(* started.                                                                *)
(***************************************************************************)
C20_AnswerKeepsHandles ==
    frame[1].op = "answer" => Handles = frame[1].handles0

\* An answer call against a built engine whose retrieval failed, after
\* earlier calls were answered: the handles are as they were.
C20_Witness ==
    /\ AnswerDone(1)
    /\ hybrid_query_engine.kind = "engine"
    /\ frame[1].failed = "retrieve"
    /\ conversation_history # <<>>
    /\ Handles = frame[1].handles0

(***************************************************************************)
(* C19: the history is one buffer shared by all callers: every turn among  *)
(* the last 4 of the history that was recorded by a call made for another  *)
(* user is in the prompt of this user's call, as its question line         *)
(* followed by its answer line.                                            *)
(***************************************************************************)
InPrompt(p, turn) ==
    \E j \in 1..(Len(p.lines) - 1) :
        /\ p.lines[j] = [role |-> "User", text |-> turn.user]
        /\ p.lines[j + 1] = [role |-> "Assistant", text |-> turn.assistant]

C19_SharedHistory ==
    PromptBuilt(1) =>
        /\ Len(frame[1].askers0) = Len(frame[1].hist0)
        /\ \A i \in 1..Len(frame[1].hist0) :
               (/\ i > Len(frame[1].hist0) - RecentTurns
                /\ frame[1].askers0[i] # frame[1].user) =>
                   InPrompt(frame[1].context_prompt, frame[1].hist0[i])

\* The call of one user directly after an answered call of another user:
\* the newest turn, which is the other user's, ends the context lines.
C19_Witness ==
    /\ PromptBuilt(1)
    /\ frame[1].hist0 # <<>>
    /\ frame[1].askers0[Len(frame[1].askers0)] # frame[1].user
    /\ frame[1].hist0[Len(frame[1].hist0)] = turns[Len(turns)]
    /\ frame[1].context_prompt.lines[Len(frame[1].context_prompt.lines)].text =
           frame[1].hist0[Len(frame[1].hist0)].assistant
    /\ frame[1].user = 1

(***************************************************************************)
(* C21: fusion is a barrier: in every _retrieve call the merge loop runs   *)
(* only after each of the three retrievers has returned or raised; while   *)
(* a retriever is still to be called nothing has been merged, and what is  *)
(* merged is all that the retrievers that did not raise returned.          *)
(***************************************************************************)
C21_FusionBarrier ==
    /\ rpc = "retrievers" =>
           /\ unique_nodes = <<>>
           /\ Len(strategy_out) = ridx - 1
           /\ Len(strategy_out) < NumRetrievers
    /\ (rpc \in {"fuse", "done"} \/ unique_nodes # <<>>) =>
           /\ Len(strategy_out) = NumRetrievers
           /\ all_results = SurvivingResults

\* The merge has taken its first result, after one retriever raised and
\* the two others returned.
C21_Witness ==
    /\ rpc = "fuse"
    /\ ridx = 2
    /\ unique_nodes # <<>>
    /\ Len(strategy_out) = NumRetrievers
    /\ strategy_out[2].raised
    /\ Len(all_results) = 2

(***************************************************************************)
(* C22: the engine does not retry: an answer call invokes the completion   *)
(* capability at most once; when that invocation raises, the call ends     *)
(* with the error text after this one invocation.                          *)
(***************************************************************************)
C22_NoRetry ==
    frame[1].op = "answer" =>
        /\ frame[1].completions <= 1
        /\ frame[1].failed = "complete" =>
               /\ frame[1].completions = 1
               /\ pc[1] = "idle"
               /\ frame[1].ret = RetStr(ErrorSearching(CompletionError))
        /\ pc[1] = "complete" => frame[1].completions = 0

\* An answer call whose one completion call raised has returned.
C22_Witness ==
    /\ AnswerDone(1)
    /\ frame[1].failed = "complete"
    /\ frame[1].completions = 1
    /\ frame[1].retrieved

(***************************************************************************)
(* C23: fusion is deterministic: a second _retrieve call with the same     *)
(* query, in which every retriever does what it did in the first call,     *)
(* returns the same fused result set as the first: the same nodes, each    *)
(* with the same retained result.                                          *)
(***************************************************************************)
ResultSet(l) == {l[i] : i \in 1..Len(l)}

Minutes == 0..MaxMinute
ChatId == 1

\* A task: where it is, the list and the index of the for loop of
\* send_all_messages_at_once, the chat id of the send in flight, the minute
\* in which it last evaluated the time test (curatex_bot.py:265) and the
\* minute in which its sleep of 60 seconds began (curatex_bot.py:287).
NewTask == [pc |-> "wait", iter |-> <<>>, i |-> 0, chat |-> NoChat,
            seen |-> NoTime, slept |-> NoTime]

\* curatex_bot.py:263: the loop condition is False and the coroutine ends.
EndedTask == [NewTask EXCEPT !.pc = "done"]

\* curatex_bot.py:287: send_all_messages_at_once has returned, its locals
\* are gone, and the task sleeps for 60 seconds.
Sleep60 == [NewTask EXCEPT !.pc = "wait60", !.slept = clock]

engineAndFuse == <<engineVars, fuseVars, convVars, pipeVars>>

\* curatex_bot.py:364-401 (and 420-457): the handler loads the messages,
\* sets the globals and awaits its reply.
SetupScheduling(parsed_time, has_messages) ==
    /\ handler = "idle"
    /\ nschedules < MaxSchedules
    /\ nschedules' = nschedules + 1
    /\ IF has_messages
       THEN /\ scheduled_messages' = Messages(nschedules + 1)
            /\ scheduled_time' = parsed_time
            /\ target_chat_id' = ChatId
            /\ is_scheduling_active' = TRUE
            /\ stopped' = FALSE
            /\ handler' = "setup_reply"
       ELSE UNCHANGED <<scheduled_messages, scheduled_time, target_chat_id,
                        is_scheduling_active, stopped, handler>>
    /\ UNCHANGED <<clock, tasks, deliveries, late_attempts>>
    /\ UNCHANGED engineAndFuse

\* curatex_bot.py:403-416 (and 459-472): the reply is through and the
\* handler creates a scheduler task; if the reply raised, the handler ends
\* without creating one.
SetupReplied(ok) ==
    /\ handler = "setup_reply"
    /\ handler' = "idle"
    /\ tasks' = IF ok THEN Append(tasks, NewTask) ELSE tasks
    /\ UNCHANGED <<scheduled_messages, scheduled_time, target_chat_id,
                   is_scheduling_active, clock, nschedules, deliveries,
                   stopped, late_attempts>>
    /\ UNCHANGED engineAndFuse

\* curatex_bot.py:563-594: /stop.  No scheduler task is cancelled.
StopScheduling ==
    /\ handler = "idle"
    /\ IF is_scheduling_active
       THEN /\ is_scheduling_active' = FALSE
            /\ scheduled_messages' = NoMessages
            /\ scheduled_time' = NoTime
            /\ target_chat_id' = NoChat
            /\ stopped' = TRUE
       ELSE UNCHANGED <<is_scheduling_active, scheduled_messages,
                        scheduled_time, target_chat_id, stopped>>
    /\ UNCHANGED <<clock, tasks, handler, nschedules, deliveries, late_attempts>>
    /\ UNCHANGED engineAndFuse

\* A minute goes by.
Tick ==
    /\ clock < MaxMinute
    /\ clock' = clock + 1
    /\ UNCHANGED <<scheduled_messages, scheduled_time, target_chat_id,
                   is_scheduling_active, tasks, handler, nschedules,
                   deliveries, stopped, late_attempts>>
    /\ UNCHANGED engineAndFuse

\* curatex_bot.py:316-320: send_message is called for element i of the list
\* the for loop iterates, with the chat id the global holds now.
StartSend(task, list, i) ==
    [task EXCEPT !.pc = "sending", !.iter = list, !.i = i,
                 !.chat = target_chat_id]

\* curatex_bot.py:314, 342-355: the next round of the for loop, or the
\* summary message after the last one.
ContinueLoop(task) ==
    IF task.i < Len(task.iter)
    THEN StartSend(task, task.iter, task.i + 1)
    ELSE [task EXCEPT !.pc = "summary"]

\* A send that starts after /stop has cancelled the schedule is counted.
LateAttempts(task) ==
    IF task.pc = "sending" /\ stopped THEN late_attempts + 1 ELSE late_attempts

\* curatex_bot.py:263-294, 298-320: a task that was created or has slept
\* evaluates the loop condition and the time test; at the scheduled minute
\* it enters send_all_messages_at_once and starts the first send.
SchedulerStep(k) ==
    /\ k \in 1..Len(tasks)
    /\ \/ tasks[k].pc = "wait"
       \/ tasks[k].pc = "wait60" /\ clock # tasks[k].slept
    /\ LET due == /\ scheduled_time # NoTime
                  /\ scheduled_time = clock
                  /\ Len(scheduled_messages) > 0
           new == IF ~is_scheduling_active
                  THEN EndedTask
                  ELSE IF ~due
                  THEN [NewTask EXCEPT !.seen = clock]
                  ELSE IF scheduled_messages = NoMessages \/ target_chat_id = NoChat
                  THEN Sleep60
                  ELSE StartSend(NewTask, scheduled_messages, 1)
       IN  /\ tasks' = [tasks EXCEPT ![k] = new]
           /\ is_scheduling_active' =
                  IF new.pc = "wait60" THEN FALSE ELSE is_scheduling_active
           /\ late_attempts' = LateAttempts(new)
    /\ UNCHANGED <<scheduled_messages, scheduled_time, target_chat_id, clock,
                   handler, nschedules, deliveries, stopped>>
    /\ UNCHANGED engineAndFuse

\* curatex_bot.py:316-334: send_message returns or raises.  After a send
\* that worked the loop sleeps only if i < len(scheduled_messages) - 1, a
\* test on the global; after one that raised it sleeps for a second.
SendReturns(k, ok) ==
    /\ k \in 1..Len(tasks)
    /\ tasks[k].pc = "sending"
    /\ ok => tasks[k].chat # NoChat
    /\ LET m == tasks[k].iter[tasks[k].i]
           new == IF ok /\ ~(tasks[k].i - 1 < Len(scheduled_messages) - 1)
                  THEN ContinueLoop(tasks[k])
                  ELSE [tasks[k] EXCEPT !.pc = "pause"]
       IN  /\ deliveries' =
                  IF ok
                  THEN [deliveries EXCEPT ![m.sched][m.msg] = @ + 1]
                  ELSE deliveries
           /\ tasks' = [tasks EXCEPT ![k] = new]
           /\ late_attempts' = LateAttempts(new)
    /\ UNCHANGED <<scheduled_messages, scheduled_time, target_chat_id,
                   is_scheduling_active, clock, handler, nschedules, stopped>>
    /\ UNCHANGED engineAndFuse

\* curatex_bot.py:314-320: the sleep between two messages is over.
NextMessage(k) ==
    /\ k \in 1..Len(tasks)
    /\ tasks[k].pc = "pause"
    /\ tasks' = [tasks EXCEPT ![k] = ContinueLoop(tasks[k])]
    /\ late_attempts' = LateAttempts(ContinueLoop(tasks[k]))
    /\ UNCHANGED <<scheduled_messages, scheduled_time, target_chat_id,
                   is_scheduling_active, clock, handler, nschedules,
                   deliveries, stopped>>
    /\ UNCHANGED engineAndFuse

\* curatex_bot.py:342-360, 281-288: the summary message is through (an
\* exception of it is caught); back in message_scheduler the flag is
\* cleared and the task sleeps for 60 seconds.
SummaryReturns(k) ==
    /\ k \in 1..Len(tasks)
    /\ tasks[k].pc = "summary"
    /\ is_scheduling_active' = FALSE
    /\ tasks' = [tasks EXCEPT ![k] = Sleep60]
    /\ UNCHANGED <<scheduled_messages, scheduled_time, target_chat_id, clock,
                   handler, nschedules, deliveries, stopped, late_attempts>>
    /\ UNCHANGED engineAndFuse

TaskIds == 1..MaxSchedules

NextBot ==
    \/ \E m \in Minutes, has \in BOOLEAN : SetupScheduling(m, has)
    \/ \E ok \in BOOLEAN : SetupReplied(ok)
    \/ StopScheduling
    \/ Tick
    \/ \E k \in TaskIds : SchedulerStep(k)
    \/ \E k \in TaskIds, ok \in BOOLEAN : SendReturns(k, ok)
    \/ \E k \in TaskIds : NextMessage(k)
    \/ \E k \in TaskIds : SummaryReturns(k)

\* The engine stands still while the scheduler is followed.
InitBot == InitFuse

SpecBot == InitBot /\ [][NextBot]_vars

(***************************************************************************)
(* C24 (as the spec states it): across any sequence of schedule set-ups    *)
(* and /stop commands, each message of a schedule is sent to the chat at   *)
(* most once; two scheduler tasks never both deliver the same schedule.    *)
(***************************************************************************)
C24_SentAtMostOnce ==
    \A k \in 1..MaxSchedules, i \in 1..MsgsPerSchedule : deliveries[k][i] <= 1

(***************************************************************************)
(* C25 (as the spec states it): after stop_scheduling has run while        *)
(* scheduling was active, no scheduled message is sent or attempted until  *)
(* a new schedule is set up, also when /stop arrives while                 *)
(* send_all_messages_at_once is in the middle of sending.                  *)
(***************************************************************************)
C25_StopCancels == late_attempts = 0

(***************************************************************************)
(* C26: the engine handle is None or a complete engine with its three      *)
(* retrievers, and it changes only in the last step of a setup call that   *)
(* returns True, to the engine made of the retrievers that call created:   *)
(* a failed setup leaves it as it was, nothing resets it to None, and an   *)
(* answer call that runs beside a setup reads the old engine or the        *)
(* complete new one.                                                       *)
(***************************************************************************)
CompleteEngine(e) ==
    /\ e.kind = "engine"
    /\ e.vec.kind # "none"
    /\ e.kw.kind # "none"
    /\ e.bm25.kind # "none"

EngineSetBy(t) ==
    /\ pc[t] = "create_engine"
    /\ pc'[t] = "idle"
    /\ frame'[t].op = "setup"
    /\ frame'[t].ret = RetBool(TRUE)
    /\ hybrid_query_engine' =
           Engine(frame[t].vector_retriever, frame[t].keyword_retriever,
                  frame[t].bm25_retriever)

C26_EngineHandle ==
    /\ [](hybrid_query_engine = NoEngine \/ CompleteEngine(hybrid_query_engine))
    /\ [][hybrid_query_engine' # hybrid_query_engine =>
              /\ \E t \in Threads : EngineSetBy(t)
              /\ CompleteEngine(hybrid_query_engine')]_vars

\* An answer call that started with the old engine is between retrieval
\* and completion when a setup on another thread has put the new engine
\* in place.
C26_Witness ==
    \E t1, t2 \in Threads :
        /\ frame[t1].op = "answer"
        /\ pc[t1] \in {"retrieve", "complete"}
        /\ CompleteEngine(frame[t1].handles0[4])
        /\ frame[t1].handles0[4] # hybrid_query_engine
        /\ SetupDone(t2)
        /\ frame[t2].ret = RetBool(TRUE)
        /\ CompleteEngine(hybrid_query_engine)

(***************************************************************************)
(* C27: when answer calls interleave with no lock, then once all have      *)
(* finished the history holds the turn of each call that got a response    *)
(* exactly once, and at most 10 turns.                                     *)
(***************************************************************************)
Occurrences(h, turn) == Cardinality({i \in 1..Len(h) : h[i] = turn})

C27_NoLostTurn ==
    (\A t \in Threads : pc[t] = "idle") =>
        /\ Len(conversation_history) <= HistoryCap
        /\ \A t \in Threads :
               (AnswerDone(t) /\ frame[t].failed = "no" /\ ~frame[t].notinit) =>
                   Occurrences(conversation_history, ThisTurn(frame[t])) = 1

\* Two calls that started with the same full history, so that each ran
\* while the other was in flight, have both finished with a response.
C27_Witness ==
    /\ \A t \in Threads : pc[t] = "idle"
    /\ \E t1, t2 \in Threads :
           /\ t1 # t2
           /\ AnswerDone(t1) /\ frame[t1].failed = "no"
           /\ AnswerDone(t2) /\ frame[t2].failed = "no"
           /\ frame[t1].hist0 = frame[t2].hist0
           /\ Len(frame[t1].hist0) = HistoryCap
           /\ Len(conversation_history) = HistoryCap

(***************************************************************************)
(* main.py: the input conversation.  A message text is the sequence of    *)
(* its characters; the pictograph that starts a button label is left out   *)
(* of the labels.                                                          *)
(***************************************************************************)
\* a query of two characters
TooShort == <<"a", "b">>
\* two characters between blanks
PaddedShort == <<" ", "a", "b", " ">>
\* a query of three characters
Topic == <<"a", "b", "c">>
Five == <<"5">>
Zero == <<"0">>
FiftyOne == <<"5", "1">>
\* main.py:313, 332
CustomAmount ==
    <<"C", "u", "s", "t", "o", "m",
      " ", "A", "m", "o", "u", "n", "t">>
\* main.py:356, 381
SendNow == <<"S", "e", "n", "d", " ", "N", "o", "w">>
\* main.py:357, 383
ScheduleForLater ==
    <<"S", "c", "h", "e", "d", "u", "l", "e", " ",
      "f", "o", "r", " ", "L", "a", "t", "e", "r">>
\* main.py:358, 389
DailyAtSpecificTime ==
    <<"D", "a", "i", "l", "y", " ", "a", "t", " ", "S", "p",
      "e", "c", "i", "f", "i", "c", " ", "T", "i", "m", "e">>
TwelveHour == <<"0", "2", ":", "3", "0", " ", "P", "M">>
TwentyFourHour == <<"1", "4", ":", "3", "0">>
\* hour 13 with PM
BadTime == <<"1", "3", ":", "0", "0", " ", "P", "M">>
\* main.py:443, 459
YesStartProcessing ==
    <<"Y", "e", "s", ",", " ", "S", "t", "a", "r", "t",
      " ", "P", "r", "o", "c", "e", "s", "s", "i", "n", "g">>
\* main.py:444, 473
CancelChoice == <<"C", "a", "n", "c", "e", "l">>
\* main.py:444, 478
EditSettings ==
    <<"E", "d", "i", "t", " ", "S", "e", "t", "t", "i", "n", "g", "s">>
\* main.py:382
Now == <<"n", "o", "w">>

\* The texts a user sends at each step: the accepted and the refused
\* ones of that step.
QueryTexts == {TooShort, PaddedShort, Topic}
CountTexts == {Five, Zero, FiftyOne, CustomAmount, Topic}
TimeTexts ==
    {SendNow, ScheduleForLater, DailyAtSpecificTime, TwelveHour,
     TwentyFourHour, BadTime}
ConfirmTexts == {YesStartProcessing, CancelChoice, EditSettings, Topic}

\* str.strip(): leading and trailing blanks removed.
IsSpace(c) == c = " "

RECURSIVE LStrip(_)
LStrip(s) == IF s # <<>> /\ IsSpace(Head(s)) THEN LStrip(Tail(s)) ELSE s

RECURSIVE RStrip(_)
RStrip(s) ==
    IF s # <<>> /\ IsSpace(s[Len(s)]) THEN RStrip(SubSeq(s, 1, Len(s) - 1)) ELSE s

Strip(s) == RStrip(LStrip(s))

DigitChars == <<"0", "1", "2", "3", "4", "5", "6", "7", "8", "9">>
IsDigit(c) == \E d \in 1..10 : DigitChars[d] = c
DigitValue(c) == (CHOOSE d \in 1..10 : DigitChars[d] = c) - 1
AllDigits(s) == s # <<>> /\ \A i \in 1..Len(s) : IsDigit(s[i])

RECURSIVE NatOf(_)
NatOf(s) ==
    IF s = <<>> THEN 0
    ELSE 10 * NatOf(SubSeq(s, 1, Len(s) - 1)) + DigitValue(s[Len(s)])

\* int(text): blanks around the number and one sign are accepted; ok is
\* FALSE where int raises ValueError.
IntOf(s) ==
    LET t == Strip(s)
        signed == t # <<>> /\ Head(t) \in {"+", "-"}
        body == IF signed THEN Tail(t) ELSE t
    IN  IF AllDigits(body)
        THEN [ok |-> TRUE,
              value |-> IF signed /\ Head(t) = "-" THEN 0 - NatOf(body)
                        ELSE NatOf(body)]
        ELSE [ok |-> FALSE, value |-> 0]

IndexOf(s, c) ==
    IF \E i \in 1..Len(s) : s[i] = c
    THEN CHOOSE i \in 1..Len(s) : s[i] = c /\ \A j \in 1..(i - 1) : s[j] # c
    ELSE 0

\* One or two digits with a value in lo..hi: the patterns of %I, %H and %M.
TwoDigits(s, lo, hi) == Len(s) \in 1..2 /\ AllDigits(s) /\ NatOf(s) \in lo..hi

RECURSIVE LeadingDigits(_)
LeadingDigits(s) ==
    IF s # <<>> /\ IsDigit(Head(s)) THEN 1 + LeadingDigits(Tail(s)) ELSE 0

AmPm(s) == Len(s) = 2 /\ s[1] \in {"a", "A", "p", "P"} /\ s[2] \in {"m", "M"}

\* main.py:400: datetime.strptime(choice, "%I:%M %p") does not raise.
Strptime12(s) ==
    LET colon == IndexOf(s, ":")
        hour == SubSeq(s, 1, colon - 1)
        rest == SubSeq(s, colon + 1, Len(s))
        k == LeadingDigits(rest)
        after == SubSeq(rest, k + 1, Len(rest))
        tail == LStrip(after)
    IN  /\ colon > 0
        /\ TwoDigits(hour, 1, 12)
        /\ TwoDigits(SubSeq(rest, 1, k), 0, 59)
        /\ Len(tail) < Len(after)
        /\ AmPm(tail)

\* main.py:404: datetime.strptime(choice, "%H:%M") does not raise.
Strptime24(s) ==
    LET colon == IndexOf(s, ":")
    IN  /\ colon > 0
        /\ TwoDigits(SubSeq(s, 1, colon - 1), 0, 23)
        /\ TwoDigits(SubSeq(s, colon + 1, Len(s)), 0, 59)

\* dict operations
Put(d, k, v) == [x \in DOMAIN d \cup {k} |-> IF x = k THEN v ELSE d[x]]
Del(d, k) == [x \in DOMAIN d \ {k} |-> d[x]]

engineFuseBot == <<engineVars, fuseVars, botVars, pipeVars>>

\* What a handler leaves behind: the update it handled, the state of the
\* conversation and the sessions before it, and the exception it raised.
Handled(c, u, command, text, raised) ==
    last_update' = [chat |-> c, user |-> u, command |-> command, text |-> text,
                    state0 |-> conversations[<<c, u>>],
                    sessions0 |-> user_sessions, raised |-> raised]

\* ConversationHandler: the value a handler returns is the new state; a
\* handler that raises leaves the state as it was.
Replied(c, u, ok, state) ==
    conversations' =
        IF ok THEN [conversations EXCEPT ![<<c, u>>] = state] ELSE conversations

SendError(ok) == IF ok THEN "none" ELSE "NetworkError"

\* main.py:267-292, the entry point: /input with no conversation running.
StartInputFlow(c, u, ok) ==
    /\ conversations[<<c, u>>] = END
    /\ user_sessions' = Put(Del(user_sessions, u), u, EmptySession)
    /\ Replied(c, u, ok, QUERY)
    /\ Handled(c, u, "input", <<>>, SendError(ok))
    /\ UNCHANGED engineFuseBot

\* main.py:294-325
CollectQuery(c, u, text, ok) ==
    /\ conversations[<<c, u>>] = QUERY
    /\ LET query == Strip(text)
       IN  IF Len(query) < 3
           THEN /\ UNCHANGED <<conversations, user_sessions>>
                /\ Handled(c, u, "", text, SendError(ok))
           ELSE IF u \notin DOMAIN user_sessions
           THEN /\ UNCHANGED <<conversations, user_sessions>>
                /\ Handled(c, u, "", text, "KeyError")
           ELSE /\ user_sessions' =
                       [user_sessions EXCEPT ![u] = Put(@, "query", query)]
                /\ Replied(c, u, ok, NEWS_COUNT)
                /\ Handled(c, u, "", text, SendError(ok))
    /\ UNCHANGED engineFuseBot

\* main.py:343-346
ValidCount(n) == n.ok /\ ~(n.value < 1 \/ n.value > 50)

\* main.py:327-372
CollectNewsCount(c, u, message, ok) ==
    /\ conversations[<<c, u>>] = NEWS_COUNT
    /\ LET text == Strip(message)
           count == IntOf(text)
       IN  IF text = CustomAmount \/ ~ValidCount(count)
           THEN /\ UNCHANGED <<conversations, user_sessions>>
                /\ Handled(c, u, "", message, SendError(ok))
           ELSE IF u \notin DOMAIN user_sessions
           THEN /\ UNCHANGED <<conversations, user_sessions>>
                /\ Handled(c, u, "", message, "KeyError")
           ELSE /\ user_sessions' =
                       [user_sessions EXCEPT
                            ![u] = Put(@, "news_count", count.value)]
                /\ Replied(c, u, ok, DELIVERY_TIME)
                /\ Handled(c, u, "", message, SendError(ok))
    /\ UNCHANGED engineFuseBot

\* main.py:414-452: the confirmation text reads the query and the count of
\* the session, then the reply is sent and CONFIRM returned.
ShowConfirmation(c, u, text, ok) ==
    IF {"query", "news_count"} \subseteq DOMAIN user_sessions'[u]
    THEN /\ Replied(c, u, ok, CONFIRM)
         /\ Handled(c, u, "", text, SendError(ok))
    ELSE /\ UNCHANGED conversations
         /\ Handled(c, u, "", text, "KeyError")

\* Mutant: any text with a colon is taken as a time.
AcceptedTimeAnyColon(choice) == IndexOf(choice, ":") > 0

\* main.py:397-409: one of the two formats parses.
AcceptedTime(choice) == Strptime12(choice) \/ Strptime24(choice)

\* main.py:374-412
CollectDeliveryTime(c, u, text, ok) ==
    /\ conversations[<<c, u>>] = DELIVERY_TIME
    /\ LET choice == Strip(text)
       IN  IF u \notin DOMAIN user_sessions
           THEN /\ UNCHANGED <<conversations, user_sessions>>
                /\ Handled(c, u, "", text, "KeyError")
           ELSE LET chosen == Put(user_sessions[u], "delivery_option", choice)
                IN  IF choice = SendNow
                    THEN /\ user_sessions' =
                                [user_sessions EXCEPT
                                     ![u] = Put(chosen, "delivery_time", Now)]
                         /\ ShowConfirmation(c, u, text, ok)
                    ELSE IF choice \in {ScheduleForLater, DailyAtSpecificTime}
                              \/ ~AcceptedTime(choice)
                    THEN /\ user_sessions' = [user_sessions EXCEPT ![u] = chosen]
                         /\ UNCHANGED conversations
                         /\ Handled(c, u, "", text, SendError(ok))
                    ELSE /\ user_sessions' =
                                [user_sessions EXCEPT
                                     ![u] = Put(chosen, "delivery_time", choice)]
                         /\ ShowConfirmation(c, u, text, ok)
    /\ UNCHANGED engineFuseBot

\* main.py:454-487.  On "Yes" the first reply is sent and the pipeline is
\* called with user_sessions[user_id]; the pipeline catches its own
\* exceptions (main.py:491, 552), so only a reply that fails gets out of it.
HandleConfirmation(c, u, text, ok) ==
    /\ conversations[<<c, u>>] = CONFIRM
    /\ LET choice == Strip(text)
           replies == choice \in {YesStartProcessing, CancelChoice, EditSettings}
       IN  IF replies /\ ~ok
           THEN /\ UNCHANGED <<conversations, user_sessions>>
                /\ Handled(c, u, "", text, "NetworkError")
           ELSE IF choice = YesStartProcessing /\ u \notin DOMAIN user_sessions
           THEN /\ UNCHANGED <<conversations, user_sessions>>
                /\ Handled(c, u, "", text, "KeyError")
           ELSE /\ user_sessions' = Del(user_sessions, u)
                /\ Replied(c, u, TRUE, END)
                /\ Handled(c, u, "", text, "none")
    /\ UNCHANGED engineFuseBot

\* The commands of the model: /start and /help are taken by the handlers
\* added before the conversation (main.py:924-925) and never reach it.
FallbackCommands == {"cancel", "other"}

\* main.py:846-862, the fallback for /cancel and for any other command.
CancelConversation(c, u, command, ok) ==
    /\ conversations[<<c, u>>] # END
    /\ command \in FallbackCommands
    /\ user_sessions' = Del(user_sessions, u)
    /\ Replied(c, u, ok, END)
    /\ Handled(c, u, command, <<>>, SendError(ok))
    /\ UNCHANGED engineFuseBot

\* main.py:865-881, the fallback for /input while a conversation runs
\* (main.py:915, allow_reentry=False at 918).
RestartConversation(c, u, ok) ==
    /\ conversations[<<c, u>>] # END
    /\ user_sessions' = Del(user_sessions, u)
    /\ Replied(c, u, ok, END)
    /\ Handled(c, u, "input", <<>>, SendError(ok))
    /\ UNCHANGED engineFuseBot

\* main.py:900-931: the application handles one update at a time, and the
\* conversation handler picks the handler by the state of (chat, user).
NextConv ==
    \/ \E c \in Chats, u \in ConvUsers, ok \in BOOLEAN : StartInputFlow(c, u, ok)
    \/ \E c \in Chats, u \in ConvUsers, text \in QueryTexts, ok \in BOOLEAN :
           CollectQuery(c, u, text, ok)
    \/ \E c \in Chats, u \in ConvUsers, text \in CountTexts, ok \in BOOLEAN :
           CollectNewsCount(c, u, text, ok)
    \/ \E c \in Chats, u \in ConvUsers, text \in TimeTexts, ok \in BOOLEAN :
           CollectDeliveryTime(c, u, text, ok)
    \/ \E c \in Chats, u \in ConvUsers, text \in ConfirmTexts, ok \in BOOLEAN :
           HandleConfirmation(c, u, text, ok)
    \/ \E c \in Chats, u \in ConvUsers, command \in FallbackCommands,
          ok \in BOOLEAN :
           CancelConversation(c, u, command, ok)
    \/ \E c \in Chats, u \in ConvUsers, ok \in BOOLEAN : RestartConversation(c, u, ok)

InitConv == InitFuse
SpecConv == InitConv /\ [][NextConv]_vars

(***************************************************************************)
(* C28: whenever the input conversation of a (chat, user) pair is in one   *)
(* of its four states, user_sessions has an entry for that user.           *)
(***************************************************************************)
C28_SessionExists ==
    \A key \in ConvKeys :
        conversations[key] # END => key[2] \in DOMAIN user_sessions

(***************************************************************************)
(* C29: when /input arrives while the input conversation of the sender is  *)
(* running and its handler does not raise, the conversation is at QUERY    *)
(* afterwards and the user has a fresh, empty session.                     *)
(***************************************************************************)
C29_RestartAtQuery ==
    (/\ last_update.command = "input"
     /\ last_update.state0 # END
     /\ last_update.raised = "none") =>
        /\ conversations[<<last_update.chat, last_update.user>>] = QUERY
        /\ last_update.user \in DOMAIN user_sessions
        /\ user_sessions[last_update.user] = EmptySession

(***************************************************************************)
(* C30: when a conversation reaches CONFIRM the session of its user holds  *)
(* a query of at least 3 characters, a news_count in 1..50 and a           *)
(* delivery_time that is "now" or a string that parsed in the 12-hour or   *)
(* the 24-hour format; a text refused at the query, count or time step     *)
(* leaves the conversation in its state and that step's field of the       *)
(* session as it was.                                                      *)
(***************************************************************************)
FieldOf(sessions, u, k) ==
    IF u \in DOMAIN sessions /\ k \in DOMAIN sessions[u]
    THEN <<sessions[u][k]>>
    ELSE <<>>

ValidSession(session) ==
    /\ {"query", "news_count", "delivery_time"} \subseteq DOMAIN session
    /\ Len(session["query"]) >= 3
    /\ session["news_count"] \in 1..50
    /\ \/ session["delivery_time"] = Now
       \/ Strptime12(session["delivery_time"])
       \/ Strptime24(session["delivery_time"])

RefusedText(state, text) ==
    LET t == Strip(text)
    IN  \/ state = QUERY /\ Len(t) < 3
        \/ state = NEWS_COUNT /\ (~IntOf(t).ok \/ IntOf(t).value \notin 1..50)
        \/ state = DELIVERY_TIME /\ t # SendNow /\ ~Strptime12(t) /\ ~Strptime24(t)

StepField(state) ==
    IF state = QUERY THEN "query"
    ELSE IF state = NEWS_COUNT THEN "news_count" ELSE "delivery_time"

C30_ValidAtConfirm ==
    LET l == last_update
        key == <<l.chat, l.user>>
    IN  /\ (l.state0 \in {QUERY, NEWS_COUNT, DELIVERY_TIME}
              /\ conversations[key] = CONFIRM) =>
               /\ l.user \in DOMAIN user_sessions
               /\ ValidSession(user_sessions[l.user])
        /\ (l.command = "" /\ RefusedText(l.state0, l.text)) =>
               /\ conversations[key] = l.state0
               /\ FieldOf(user_sessions, l.user, StepField(l.state0)) =
                      FieldOf(l.sessions0, l.user, StepField(l.state0))

\* A 24-hour time was accepted and the conversation is at CONFIRM.
C30_Witness ==
    /\ last_update.state0 = DELIVERY_TIME
    /\ last_update.text = TwentyFourHour
    /\ conversations[<<last_update.chat, last_update.user>>] = CONFIRM

(***************************************************************************)
(* main.py: the curation pipeline, process_news_curation (489-559), and    *)
(* the routing of questions to the RAG engine.  The application handles    *)
(* one update at a time, so the pipeline and the question handler run on   *)
(* thread 1 of the engine model and never overlap.                         *)
(***************************************************************************)

\* str.split(c): the parts between the occurrences of c.
RECURSIVE Split(_, _)
Split(s, c) ==
    LET i == IndexOf(s, c)
    IN  IF i = 0 THEN <<s>>
        ELSE <<SubSeq(s, 1, i - 1)>> \o Split(SubSeq(s, i + 1, Len(s)), c)

\* main.py:819: delivery_hour, delivery_minute =
\* map(int, delivery_time.split(':')); ok is FALSE where the unpacking or
\* int raises ValueError.
ScheduleTime(delivery_time) ==
    LET parts == Split(delivery_time, ":")
    IN  IF Len(parts) = 2 /\ IntOf(parts[1]).ok /\ IntOf(parts[2]).ok
        THEN [ok |-> TRUE, hour |-> IntOf(parts[1]).value,
              minute |-> IntOf(parts[2]).value]
        ELSE [ok |-> FALSE, hour |-> 0, minute |-> 0]

\* The sessions handle_confirmation passes on: what the conversation
\* has collected when it is at CONFIRM.
SessionWith(option, time) ==
    [k \in {"query", "news_count", "delivery_option", "delivery_time"} |->
        IF k = "query" THEN Topic
        ELSE IF k = "news_count" THEN IntOf(Five).value
        ELSE IF k = "delivery_option" THEN option ELSE time]

PipeSessions ==
    {SessionWith(SendNow, Now), SessionWith(TwelveHour, TwelveHour),
     SessionWith(TwentyFourHour, TwentyFourHour)}

\* main.py:572-587: search.main() returns True, a falsy value, or raises
\* (then _run_search_sync returns False).
SearchResults == {"True", "False", "raised"}

\* main.py:599-660: None after an exception, else the list of the output
\* files that exist.
FileList(files) == [kind |-> "list", files |-> files]
CurationResults ==
    {NoFiles, FileList(<<>>), FileList(<<"curated_news">>),
     FileList(<<"curated_news", "formatted_message">>)}

\* "if not curated_files" is false: a list with an element.
NonEmpty(list) == list.kind = "list" /\ list.files # <<>>

\* main.py:808: [f for f in files if 'formatted_message' in f]
MessageFiles(list) == SelectSeq(list.files, LAMBDA f : f = "formatted_message")

Ran(name, ok) == [name |-> name, ok |-> ok]

\* The run ends: the handler returns.
Ends(report) ==
    /\ step' = "idle"
    /\ outcome' = report

pipeRest == <<engineVars, fuseVars, botVars, convVars>>

\* main.py:489-508: the call and the first two replies.  A reply that
\* raises is caught at main.py:552.
ProcessNewsCuration(u, session, ok) ==
    /\ step = "idle"
    /\ pc[1] = "idle"
    /\ nruns < MaxRuns
    /\ nruns' = nruns + 1
    /\ sender' = u
    /\ session_data' = session
    /\ curated_files' = NoFiles
    /\ ran' = <<>>
    /\ setups0' = nsetups
    /\ IF ok THEN step' = "search" /\ outcome' = "none" ELSE Ends("error")
    /\ UNCHANGED <<users_with_news_context, pipeRest>>

\* Mutant: the search result is not looked at.
RunSearchIgnoresResult(result, file) ==
    /\ step = "search"
    /\ ran' = Append(ran, Ran("search", result = "True" /\ file))
    /\ step' = "curation"
    /\ UNCHANGED <<session_data, sender, curated_files, outcome,
                   users_with_news_context, setups0, nruns, pipeRest>>

\* main.py:509-524: run_search, then the two checks.
RunSearch(result, file) ==
    /\ step = "search"
    /\ ran' = Append(ran, Ran("search", result = "True" /\ file))
    /\ IF result # "True" THEN Ends("search_failed")
       ELSE IF ~file THEN Ends("no_results_file")
       ELSE step' = "curation" /\ UNCHANGED outcome
    /\ UNCHANGED <<session_data, sender, curated_files,
                   users_with_news_context, setups0, nruns, pipeRest>>

\* main.py:526-534
RunCuration(files) ==
    /\ step = "curation"
    /\ curated_files' = files
    /\ ran' = Append(ran, Ran("curation", NonEmpty(files)))
    /\ IF NonEmpty(files)
       THEN step' = "verify" /\ UNCHANGED outcome
       ELSE Ends("curation_failed")
    /\ UNCHANGED <<session_data, sender, users_with_news_context, setups0,
                   nruns, pipeRest>>

\* main.py:536-550: missing files give a warning only; then the delivery
\* step is chosen by delivery_time.
VerifyFiles(ok) ==
    /\ step = "verify"
    /\ IF ~ok THEN Ends("error")
       ELSE /\ step' = IF session_data["delivery_time"] = Now
                       THEN "send" ELSE "schedule"
            /\ UNCHANGED outcome
    /\ UNCHANGED <<session_data, sender, curated_files, ran,
                   users_with_news_context, setups0, nruns, pipeRest>>

\* main.py:660-743: the articles are parsed and sent; an exception is
\* caught at main.py:770 and reported, and setup_rag_for_user is not
\* reached.
SendResults(ok) ==
    /\ step = "send"
    /\ ran' = Append(ran, Ran("send_results", ok))
    /\ IF ok
       THEN step' = "rag" /\ setups0' = nsetups /\ UNCHANGED outcome
       ELSE Ends("send_error") /\ UNCHANGED setups0
    /\ UNCHANGED <<session_data, sender, curated_files,
                   users_with_news_context, nruns, pipeRest>>

\* main.py:803-813: without a message file the error is reported;
\* with one it is copied (an exception is caught at main.py:841).
ScheduleDelivery(ok) ==
    /\ step = "schedule"
    /\ LET found == MessageFiles(curated_files) # <<>>
       IN  /\ ran' = Append(ran, Ran("schedule_delivery", found /\ ok))
           /\ IF ~found THEN Ends("no_message_file") /\ UNCHANGED setups0
              ELSE IF ~ok THEN Ends("schedule_error") /\ UNCHANGED setups0
              ELSE step' = "rag" /\ setups0' = nsetups /\ UNCHANGED outcome
    /\ UNCHANGED <<session_data, sender, curated_files,
                   users_with_news_context, nruns, pipeRest>>

\* main.py:961-984: setup_rag_for_user calls rag.setup_news_rag("data")
\* on a worker thread and waits for it.
SetupRagForUser(dir) ==
    /\ step = "rag"
    /\ nsetups = setups0
    /\ SetupStart(1, dir)

\* Mutant: the user is added whatever the setup returned.
RagSetupReturnsAddsAlways ==
    /\ step = "rag"
    /\ nsetups = setups0 + 1
    /\ pc[1] = "idle"
    /\ users_with_news_context' = users_with_news_context \cup {sender}
    /\ ran' = Append(ran, Ran("setup_news_rag", frame[1].ret = RetBool(TRUE)))
    /\ step' = IF session_data["delivery_time"] = Now
               THEN "completion" ELSE "parse_time"
    /\ UNCHANGED <<session_data, sender, curated_files, setups0, outcome,
                   nruns, pipeRest>>

\* main.py:986-992: the user is added when setup_news_rag returned True.
RagSetupReturns ==
    /\ step = "rag"
    /\ nsetups = setups0 + 1
    /\ pc[1] = "idle"
    /\ users_with_news_context' =
           IF frame[1].ret = RetBool(TRUE)
           THEN users_with_news_context \cup {sender}
           ELSE users_with_news_context
    /\ ran' = Append(ran, Ran("setup_news_rag", frame[1].ret = RetBool(TRUE)))
    /\ step' = IF session_data["delivery_time"] = Now
               THEN "completion" ELSE "parse_time"
    /\ UNCHANGED <<session_data, sender, curated_files, setups0, outcome,
                   nruns, pipeRest>>

\* main.py:748-768: the completion message of send_results.
Completion(ok) ==
    /\ step = "completion"
    /\ Ends(IF ok THEN "sent" ELSE "send_error")
    /\ UNCHANGED <<session_data, sender, curated_files, ran,
                   users_with_news_context, setups0, nruns, pipeRest>>

\* main.py:818-845: the time is parsed and the schedule reported; an
\* exception is caught at main.py:841 and reported as an error.
ParseDeliveryTime(ok) ==
    /\ step = "parse_time"
    /\ LET t == ScheduleTime(session_data["delivery_time"])
       IN  /\ ran' = Append(ran, Ran("parse_time", t.ok))
           /\ Ends(IF t.ok /\ ok THEN "scheduled" ELSE "schedule_error")
    /\ UNCHANGED <<session_data, sender, curated_files,
                   users_with_news_context, setups0, nruns, pipeRest>>

\* main.py:196-199 and 999-1022: a text that is no greeting is answered
\* by the RAG engine only for a user of users_with_news_context.
HandleNewsQuestion(u) ==
    /\ step = "idle"
    /\ u \in users_with_news_context
    /\ ncalls < MaxQuestions
    /\ AnswerStart(1, u)

NextPipe ==
    \/ \E u \in Users, session \in PipeSessions, ok \in BOOLEAN :
           ProcessNewsCuration(u, session, ok)
    \/ \E result \in SearchResults, file \in BOOLEAN : RunSearch(result, file)
    \/ \E files \in CurationResults : RunCuration(files)
    \/ \E ok \in BOOLEAN : VerifyFiles(ok)
    \/ \E ok \in BOOLEAN : SendResults(ok)
    \/ \E ok \in BOOLEAN : ScheduleDelivery(ok)
    \/ \E dir \in DirStates : SetupRagForUser(dir)
    \/ \E ok \in BOOLEAN : LoadVector(1, ok)
    \/ \E ok \in BOOLEAN : LoadKeyword(1, ok)
    \/ \E ok \in BOOLEAN : LoadPathChunk(1, ok)
    \/ \E ok \in BOOLEAN : ReadDocuments(1, ok)
    \/ \E ok \in BOOLEAN : Chunk(1, ok)
    \/ \E ok \in BOOLEAN : BuildVector(1, ok)
    \/ \E ok \in BOOLEAN : BuildKeyword(1, ok)
    \/ \E ok \in BOOLEAN : PersistVector(1, ok)
    \/ \E ok \in BOOLEAN : PersistKeyword(1, ok)
    \/ \E ok \in BOOLEAN : CreateRetrievers(1, ok)
    \/ \E ok \in BOOLEAN : CreateEngine(1, ok)
    \/ RagSetupReturns
    \/ \E ok \in BOOLEAN : Completion(ok)
    \/ \E ok \in BOOLEAN : ParseDeliveryTime(ok)
    \/ \E u \in Users : HandleNewsQuestion(u)
    \/ CheckEngine(1)
    \/ BuildPrompt(1)
    \/ \E ok \in BOOLEAN : Retrieve(1, ok)
    \/ \E ok \in BOOLEAN, r \in Responses(frame[1].q) : Complete(1, ok, r)
    \/ AppendHistory(1)
    \/ CheckLen(1)
    \/ PopHistory(1)
    \/ ReturnAnswer(1)

InitPipe ==
    /\ FreshOrWarm
    /\ pc = [t \in Threads |-> "idle"]
    /\ frame = [t \in Threads |-> IdleFrame]
    /\ ncalls = 0
    /\ nsetups = 0
    /\ FuseIdle
    /\ BotIdle
    /\ ConvIdle
SpecPipe == InitPipe /\ [][NextPipe]_vars

(***************************************************************************)
(* C31: every delivery time collect_delivery_time accepts is parsed        *)
(* without error by schedule_delivery, so that the delivery can be         *)
(* reported as scheduled.                                                  *)
(***************************************************************************)
C31_AcceptedTimeSchedules ==
    (/\ ran # <<>>
     /\ ran[Len(ran)].name = "parse_time"
     /\ AcceptedTime(session_data["delivery_time"])) =>
        ran[Len(ran)].ok

(***************************************************************************)
(* C32: the pipeline runs its steps in order and stops at the first        *)
(* failure: curation runs only after a search that returned a truthy       *)
(* result and left data/news_results.txt, a delivery step only after a     *)
(* curation that returned a non-empty list, setup_news_rag only inside a   *)
(* delivery step, and no step runs after a search, a curation or the       *)
(* sending or copying of a delivery step that failed.  (Inside a delivery  *)
(* step the result of setup_news_rag is not a failure of the step: the     *)
(* time is parsed and the report sent whatever it returned.)               *)
(***************************************************************************)
DeliverySteps == {"send_results", "schedule_delivery"}

InRagSetup == frame[1].op = "setup" /\ pc[1] # "idle"

C32_StepsInOrder ==
    /\ \A i \in 2..Len(ran) : ran[i - 1].name # "setup_news_rag" => ran[i - 1].ok
    /\ \A i \in 1..Len(ran) :
           /\ ran[i].name = "search" => i = 1
           /\ ran[i].name = "curation" => i = 2 /\ ran[1] = Ran("search", TRUE)
           /\ ran[i].name \in DeliverySteps =>
                  /\ i = 3
                  /\ ran[2] = Ran("curation", TRUE)
                  /\ NonEmpty(curated_files)
           /\ ran[i].name = "setup_news_rag" =>
                  i = 4 /\ ran[3].name \in DeliverySteps
           /\ ran[i].name = "parse_time" =>
                  i = 5 /\ ran[3].name = "schedule_delivery"
    /\ (InRagSetup \/ nsetups > setups0) =>
           /\ Len(ran) >= 3
           /\ ran[3].name \in DeliverySteps
           /\ ran[3].ok

\* A run went through search, curation, delivery and the RAG setup.
C32_Witness ==
    /\ step = "idle"
    /\ outcome = "sent"
    /\ Len(ran) = 4
    /\ ran[4] = Ran("setup_news_rag", TRUE)

(***************************************************************************)
(* C33: a user is in users_with_news_context only after a setup_news_rag   *)
(* call returned True, so the engine exists; every RAG answer call is for  *)
(* a user of the set and never returns the not-initialized text.           *)
(***************************************************************************)
C33_ContextMeansEngine ==
    /\ users_with_news_context # {} => hybrid_query_engine # NoEngine
    /\ frame[1].op = "answer" =>
           /\ frame[1].user \in users_with_news_context
           /\ ~frame[1].notinit

\* User 2 got the news in a pipeline run and then had a question answered.
C33_Witness ==
    /\ AnswerDone(1)
    /\ frame[1].user = 2
    /\ frame[1].failed = "no"
    /\ nruns > 0

(***************************************************************************)
(* C34: after a setup call that returned True the vector and the keyword   *)
(* index handles are either both loaded from storage, or both built in     *)
(* that call and both persisted: an exception anywhere in the load path    *)
(* (loading either index, re-reading or chunking the documents) enters the *)
(* full rebuild, which replaces both handles and persists both.            *)
(***************************************************************************)
BothLoaded(f) ==
    /\ f.path = "load"
    /\ f.loaded = Both /\ f.built = {} /\ f.persisted = {}
    /\ vector_index.kind = "loaded" /\ keyword_index.kind = "loaded"

BothBuilt(f) ==
    /\ f.path = "build"
    /\ f.built = Both /\ f.persisted = Both
    /\ vector_index = Handle("built", f.gen)
    /\ keyword_index = Handle("built", f.gen)
    /\ storage.vector = Handle("stored", f.gen)
    /\ storage.keyword = Handle("stored", f.gen)

C34_BothLoadedOrBothBuilt ==
    (SetupDone(1) /\ frame[1].ret = RetBool(TRUE)) =>
        (BothLoaded(frame[1]) \/ BothBuilt(frame[1]))

\* The vector index loaded, the keyword index did not, and the call built
\* and persisted both and returned True.
C34_Witness ==
    /\ SetupDone(1) /\ frame[1].ret = RetBool(TRUE)
    /\ frame[1].loaded = {"vector"}
    /\ BothBuilt(frame[1])

(***************************************************************************)
(* The scheduler as time goes by, curatex_bot.py:257-294.                  *)
(*                                                                         *)
(* scheduled_time is an hour and a minute, so the clock goes round: after  *)
(* the last minute of the day comes the first.  A task that waits sleeps   *)
(* for 30 seconds between two time tests (curatex_bot.py:290, 294) and a   *)
(* task that has sent sleeps for 60 (curatex_bot.py:287), so no minute     *)
(* ends before every task that waits has made its test in it and every    *)
(* task whose 60 seconds began in an earlier minute has woken.  The event  *)
(* loop runs every task that is ready, and a send returns or raises.       *)
(***************************************************************************)
\* Mutant: the sleeps are so long that a minute may end without a test.
OverdueNever(task) == FALSE

OverdueTest(task) ==
    \/ task.pc = "wait" /\ task.seen # clock
    \/ task.pc = "wait60" /\ task.slept # clock

TickDay ==
    /\ \A k \in 1..Len(tasks) : ~OverdueTest(tasks[k])
    /\ clock' = (clock + 1) % (MaxMinute + 1)
    /\ UNCHANGED <<scheduled_messages, scheduled_time, target_chat_id,
                   is_scheduling_active, tasks, handler, nschedules,
                   deliveries, stopped, late_attempts>>
    /\ UNCHANGED engineAndFuse

NextBotLive ==
    \/ \E m \in Minutes, has \in BOOLEAN : SetupScheduling(m, has)
    \/ \E ok \in BOOLEAN : SetupReplied(ok)
    \/ StopScheduling
    \/ TickDay
    \/ \E k \in TaskIds : SchedulerStep(k)
    \/ \E k \in TaskIds, ok \in BOOLEAN : SendReturns(k, ok)
    \/ \E k \in TaskIds : NextMessage(k)
    \/ \E k \in TaskIds : SummaryReturns(k)

\* The next step of task k; its position decides which one it is.
TaskStep(k) ==
    \/ SchedulerStep(k)
    \/ \E ok \in BOOLEAN : SendReturns(k, ok)
    \/ NextMessage(k)
    \/ SummaryReturns(k)

SpecBotLive ==
    /\ InitBot
    /\ [][NextBotLive]_vars
    /\ WF_vars(TickDay)
    /\ \A k \in TaskIds : WF_vars(TaskStep(k))

(***************************************************************************)
(* C35: while scheduling stays active with a non-empty message list, the   *)
(* scheduler reaches the scheduled minute, attempts all messages, sets     *)
(* is_scheduling_active to False and its loop terminates; it sends nothing *)
(* at any other minute.  In parts:                                         *)
(*  - a task enters the sending only in a time test made at the scheduled  *)
(*    minute, with scheduling active and a non-empty list;                 *)
(*  - the for loop attempts the messages one after the other from the      *)
(*    first, and the flag goes from True to False only in /stop or in a    *)
(*    task that has attempted the last message of its list;                *)
(*  - with a scheduler task running, scheduling does not stay active for   *)
(*    ever;                                                                *)
(*  - once the flag is False every task ends, unless a new schedule is     *)
(*    set up first.                                                        *)
(***************************************************************************)
Waiting(task) == task.pc \in {"wait", "wait60"}

EntersSending(k) ==
    /\ Waiting(tasks[k])
    /\ tasks'[k].pc = "sending"

AtScheduledMinute ==
    /\ is_scheduling_active
    /\ scheduled_time = clock
    /\ scheduled_messages # NoMessages

AttemptsInOrder(k) ==
    (tasks'[k].i # tasks[k].i /\ tasks[k].pc # "summary") =>
        /\ tasks'[k].pc = "sending"
        /\ tasks'[k].i = IF Waiting(tasks[k]) THEN 1 ELSE tasks[k].i + 1

AttemptedAll(k) ==
    /\ tasks[k].pc = "summary"
    /\ tasks[k].iter # NoMessages
    /\ tasks[k].i = Len(tasks[k].iter)

ClearedByStop == handler = "idle" /\ stopped' /\ scheduled_messages' = NoMessages

SchedulerStepsRight ==
    /\ Len(tasks') >= Len(tasks)
    /\ \A k \in 1..Len(tasks) :
           /\ EntersSending(k) =>
                  AtScheduledMinute /\ tasks'[k].iter = scheduled_messages
           /\ AttemptsInOrder(k)
           /\ tasks'[k].pc = "summary" /\ tasks[k].pc # "summary" =>
                  tasks'[k].i = Len(tasks'[k].iter)
    /\ is_scheduling_active /\ ~is_scheduling_active' =>
           \/ ClearedByStop
           \/ \E k \in 1..Len(tasks) :
                  AttemptedAll(k) /\ tasks'[k].pc = "wait60"

Running(k) == k <= Len(tasks) /\ tasks[k].pc # "done"

====
